---------------------------- MODULE Spec2Model ----------------------------
(***************************************************************************)
(* A model of the puyo-simulator game engine: the board, the falling pair, *)
(* gravity, chain detection and removal, scoring, the piece sequence and   *)
(* the game state machine driven by player commands and updateGame ticks.  *)
(***************************************************************************)
EXTENDS Integers, Sequences, FiniteSets, TLC

(***************************************************************************)
(* Program constants                                                       *)
(***************************************************************************)
BOARD_WIDTH == 6
BOARD_HEIGHT == 12
HIDDEN_ROWS == 2
CRANE_ROW == 0
GHOST_ROW == 1
NORMAL_FIELD_START == 2
FLASHING_DURATION == 500
FRAME_MS == 16

\* RotationState enum
UP == 0
RIGHT == 1
DOWN == 2
LEFT == 3

TotalHeight == BOARD_HEIGHT + HIDDEN_ROWS
Cols == 0 .. (BOARD_WIDTH - 1)
Rows == 0 .. (TotalHeight - 1)

PuyoColors == {"red", "green", "blue", "yellow", "purple"}

(***************************************************************************)
(* Result type                                                             *)
(***************************************************************************)
ok(v) == [ok |-> TRUE, value |-> v]
err(e) == [ok |-> FALSE, error |-> e]

createPosition(x, y) == [x |-> x, y |-> y]

(***************************************************************************)
(* Puyo                                                                    *)
(***************************************************************************)
createPuyoWithState(color, st) == [color |-> color, state |-> st]
createPuyo(color) == createPuyoWithState(color, "normal")
createEmptyPuyo == createPuyo("none")
markPuyoForDeletion(puyo) == createPuyoWithState(puyo.color, "marked_for_deletion")
isEmpty(puyo) == puyo.color = "none"

(***************************************************************************)
(* Board: grid[y][x], y = 0 the crane row, y = 1 the ghost row             *)
(***************************************************************************)
createBoard == [grid |-> [y \in Rows |-> [x \in Cols |-> createEmptyPuyo]]]

GridLength(board) == Cardinality(DOMAIN board.grid)

isOutOfBounds(board, x, y) ==
    x < 0 \/ x >= BOARD_WIDTH \/ y < 0 \/ y >= GridLength(board)

isGhostRow(y) == y = GHOST_ROW
isCraneRow(y) == y = CRANE_ROW

getPuyoAt(board, x, y) ==
    IF isOutOfBounds(board, x, y) THEN createEmptyPuyo ELSE board.grid[y][x]

\* A variant of setPuyoAt that fills the whole row y with the puyo; the
\* property of C20 tells it from the original.
setPuyoAtWholeRow(board, x, y, puyo) ==
    IF isOutOfBounds(board, x, y)
    THEN err("OutOfBounds")
    ELSE ok([board EXCEPT !.grid[y] = [c \in DOMAIN board.grid[y] |-> puyo]])

setPuyoAt(board, x, y, puyo) ==
    IF isOutOfBounds(board, x, y)
    THEN err("OutOfBounds")
    ELSE ok([board EXCEPT !.grid[y][x] = puyo])

isEmptyAt(board, x, y) == isEmpty(getPuyoAt(board, x, y))

\* applyGravity's loop body without the assignment `moved = true`.
GravityCellUnflagged(acc, x, y) ==
    LET puyo == getPuyoAt(acc.board, x, y) IN
    IF ~isEmpty(puyo) /\ isEmptyAt(acc.board, x, y + 1)
    THEN LET result1 == setPuyoAt(acc.board, x, y + 1, puyo) IN
         IF result1.ok
         THEN LET result2 == setPuyoAt(result1.value, x, y, createEmptyPuyo) IN
              IF result2.ok
              THEN [board |-> result2.value, moved |-> acc.moved]
              ELSE acc
         ELSE acc
    ELSE acc

\* One iteration of the inner loop body of applyGravity at (x, y): acc is
\* [board, moved].
GravityCell(acc, x, y) ==
    LET puyo == getPuyoAt(acc.board, x, y) IN
    IF ~isEmpty(puyo) /\ isEmptyAt(acc.board, x, y + 1)
    THEN LET result1 == setPuyoAt(acc.board, x, y + 1, puyo) IN
         IF result1.ok
         THEN LET result2 == setPuyoAt(result1.value, x, y, createEmptyPuyo) IN
              IF result2.ok
              THEN [board |-> result2.value, moved |-> TRUE]
              ELSE acc
         ELSE acc
    ELSE acc

\* applyGravity's inner loop started one row too high, at the crane row.
RECURSIVE GravityColumnFromCrane(_, _, _)
GravityColumnFromCrane(acc, x, y) ==
    IF acc.moved \in BOOLEAN /\ y < CRANE_ROW THEN acc
    ELSE GravityColumnFromCrane(GravityCell(acc, x, y), x, y - 1)

\* The inner loop of applyGravity for column x: y from grid.length - 2 down
\* to GHOST_ROW. (Reading acc.moved in the loop test makes the evaluator
\* finish one iteration before it starts the next.)
RECURSIVE GravityColumn(_, _, _)
GravityColumn(acc, x, y) ==
    IF acc.moved \in BOOLEAN /\ y < GHOST_ROW THEN acc
    ELSE GravityColumn(GravityCell(acc, x, y), x, y - 1)

\* The outer loop of applyGravity: x ascending.
RECURSIVE GravityLoop(_, _)
GravityLoop(acc, x) ==
    IF acc.moved \in BOOLEAN /\ x >= BOARD_WIDTH THEN acc
    ELSE GravityLoop(GravityColumn(acc, x, GridLength(acc.board) - 2), x + 1)

applyGravity(board) == GravityLoop([board |-> board, moved |-> FALSE], 0)

(***************************************************************************)
(* PuyoPair                                                                *)
(***************************************************************************)
createPuyoPairAt(mainPuyo, secondPuyo, x, y, rotation) ==
    [mainPuyo |-> mainPuyo, secondPuyo |-> secondPuyo,
     position |-> createPosition(x, y), rotation |-> rotation]

createPuyoPair(mainPuyo, secondPuyo) ==
    createPuyoPairAt(mainPuyo, secondPuyo, (BOARD_WIDTH \div 2) - 1,
                     NORMAL_FIELD_START, UP)

getMainPosition(pair) == pair.position

calculateRotationPosition(pair, newRotation) ==
    LET x == pair.position.x
        y == pair.position.y
    IN CASE newRotation = UP -> createPosition(x, y - 1)
         [] newRotation = RIGHT -> createPosition(x + 1, y)
         [] newRotation = DOWN -> createPosition(x, y + 1)
         [] newRotation = LEFT -> createPosition(x - 1, y)

getSecondPosition(pair) ==
    LET x == pair.position.x
        y == pair.position.y
    IN CASE pair.rotation = UP -> createPosition(x, y - 1)
         [] pair.rotation = RIGHT -> createPosition(x + 1, y)
         [] pair.rotation = DOWN -> createPosition(x, y + 1)
         [] pair.rotation = LEFT -> createPosition(x - 1, y)

\* A variant of moveLeft that tests the anchor's target only; the property of
\* C13 tells it from the original.
moveLeftAnchorOnly(pair, board) ==
    LET newX == pair.position.x - 1
        mainY == pair.position.y
    IN IF newX < 0 \/ ~isEmptyAt(board, newX, mainY)
       THEN err("InvalidMove")
       ELSE ok([pair EXCEPT !.position = createPosition(newX, pair.position.y)])

moveLeft(pair, board) ==
    LET newX == pair.position.x - 1
        mainY == pair.position.y
        secondPos == getSecondPosition(pair)
        newSecondX == secondPos.x - 1
    IN IF newX < 0 \/ newSecondX < 0
          \/ ~isEmptyAt(board, newX, mainY)
          \/ ~isEmptyAt(board, newSecondX, secondPos.y)
       THEN err("InvalidMove")
       ELSE ok([pair EXCEPT !.position = createPosition(newX, pair.position.y)])

moveRight(pair, board) ==
    LET newX == pair.position.x + 1
        mainY == pair.position.y
        secondPos == getSecondPosition(pair)
        newSecondX == secondPos.x + 1
    IN IF newX >= BOARD_WIDTH \/ newSecondX >= BOARD_WIDTH
          \/ ~isEmptyAt(board, newX, mainY)
          \/ ~isEmptyAt(board, newSecondX, secondPos.y)
       THEN err("InvalidMove")
       ELSE ok([pair EXCEPT !.position = createPosition(newX, pair.position.y)])

\* moveDown looking only at the cell below the anchor.
moveDownAnchorOnly(pair, board) ==
    LET newY == pair.position.y + 1
        mainX == pair.position.x
    IN IF newY >= BOARD_HEIGHT + HIDDEN_ROWS \/ ~isEmptyAt(board, mainX, newY)
       THEN err("InvalidMove")
       ELSE ok([pair EXCEPT !.position = createPosition(pair.position.x, newY)])


moveDown(pair, board) ==
    LET newY == pair.position.y + 1
        mainX == pair.position.x
        secondPos == getSecondPosition(pair)
        newSecondY == secondPos.y + 1
    IN IF newY >= BOARD_HEIGHT + HIDDEN_ROWS \/ newSecondY >= BOARD_HEIGHT + HIDDEN_ROWS
          \/ ~isEmptyAt(board, mainX, newY)
          \/ ~isEmptyAt(board, secondPos.x, newSecondY)
       THEN err("InvalidMove")
       ELSE ok([pair EXCEPT !.position = createPosition(pair.position.x, newY)])

\* A variant of the candidate list that, for a rotation to UP, tries the right
\* neighbour before the left one; the property of C14 tells it from the
\* original.
kickPositionsRightFirst(pair, newRotation) ==
    LET x == pair.position.x
        y == pair.position.y
    IN CASE newRotation = DOWN -> << <<x, y - 1>> >>
         [] newRotation = RIGHT -> << <<x - 1, y>> >>
         [] newRotation = LEFT -> << <<x + 1, y>> >>
         [] newRotation = UP -> << <<x + 1, y>>, <<x - 1, y>>, <<x, y - 1>>, <<x, y + 1>> >>

\* A variant of the candidate list that never lifts the pair: a rotation to
\* DOWN over an occupied cell has no candidate; the property of C37 tells it
\* from the original.
kickPositionsNoLift(pair, newRotation) ==
    LET x == pair.position.x
        y == pair.position.y
    IN CASE newRotation = DOWN -> << >>
         [] newRotation = RIGHT -> << <<x - 1, y>> >>
         [] newRotation = LEFT -> << <<x + 1, y>> >>
         [] newRotation = UP -> << <<x - 1, y>>, <<x + 1, y>>, <<x, y + 1>> >>

\* The candidate anchors of a wall kick, in the order tried.
kickPositions(pair, newRotation) ==
    LET x == pair.position.x
        y == pair.position.y
    IN CASE newRotation = DOWN -> << <<x, y - 1>> >>
         [] newRotation = RIGHT -> << <<x - 1, y>> >>
         [] newRotation = LEFT -> << <<x + 1, y>> >>
         [] newRotation = UP -> << <<x - 1, y>>, <<x + 1, y>>, <<x, y - 1>>, <<x, y + 1>> >>

\* A variant of the candidate test that does not look at the shifted anchor
\* cell; the property of C11 tells it from the original.
kickValidAnyAnchor(pair, board, newRotation, i) ==
    LET kickX == kickPositions(pair, newRotation)[i][1]
        kickY == kickPositions(pair, newRotation)[i][2]
        testPair == createPuyoPairAt(pair.mainPuyo, pair.secondPuyo, kickX, kickY,
                                     pair.rotation)
        testSecondPos == calculateRotationPosition(testPair, newRotation)
    IN /\ ~(kickX < 0 \/ kickX >= BOARD_WIDTH \/ kickY < 0
            \/ kickY >= BOARD_HEIGHT + HIDDEN_ROWS)
       /\ ~isOutOfBounds(board, testSecondPos.x, testSecondPos.y)
       /\ isEmptyAt(board, testSecondPos.x, testSecondPos.y)

\* Whether candidate number i of the wall kick is accepted.
kickValid(pair, board, newRotation, i) ==
    LET kickX == kickPositions(pair, newRotation)[i][1]
        kickY == kickPositions(pair, newRotation)[i][2]
        testPair == createPuyoPairAt(pair.mainPuyo, pair.secondPuyo, kickX, kickY,
                                     pair.rotation)
        testSecondPos == calculateRotationPosition(testPair, newRotation)
    IN /\ ~(kickX < 0 \/ kickX >= BOARD_WIDTH \/ kickY < 0
            \/ kickY >= BOARD_HEIGHT + HIDDEN_ROWS)
       /\ ~isOutOfBounds(board, testSecondPos.x, testSecondPos.y)
       /\ isEmptyAt(board, kickX, kickY)
       /\ isEmptyAt(board, testSecondPos.x, testSecondPos.y)

\* tryWallKick: the first valid candidate, as <<position>>, or <<>> for null.
tryWallKick(pair, board, newRotation) ==
    LET cands == kickPositions(pair, newRotation)
        valid == {i \in 1 .. Len(cands) : kickValid(pair, board, newRotation, i)}
    IN IF valid = {} THEN <<>>
       ELSE LET first == CHOOSE i \in valid : \A j \in valid : i <= j
            IN << createPosition(cands[first][1], cands[first][2]) >>

rotateTo(pair, board, newRotation) ==
    LET newSecondPos == calculateRotationPosition(pair, newRotation) IN
    IF ~isOutOfBounds(board, newSecondPos.x, newSecondPos.y)
       /\ isEmptyAt(board, newSecondPos.x, newSecondPos.y)
    THEN ok([pair EXCEPT !.rotation = newRotation])
    ELSE LET wallKickPos == tryWallKick(pair, board, newRotation) IN
         IF wallKickPos # <<>>
         THEN ok([pair EXCEPT !.position = wallKickPos[1], !.rotation = newRotation])
         ELSE err("InvalidRotation")

rotateClockwise(pair, board) == rotateTo(pair, board, (pair.rotation + 1) % 4)

\* A variant of rotateCounterClockwise that turns the same way as
\* rotateClockwise; the property of C16 tells it from the original.
rotateCounterClockwiseForward(pair, board) == rotateTo(pair, board, (pair.rotation + 1) % 4)

rotateCounterClockwise(pair, board) == rotateTo(pair, board, (pair.rotation + 3) % 4)

\* A variant of placeOnBoard that refuses a target cell that holds a puyo;
\* the property of C19 tells it from the original.
placeOnBoardIfEmpty(pair, board) ==
    LET mainPos == getMainPosition(pair)
        secondPos == getSecondPosition(pair)
        result1 == setPuyoAt(board, mainPos.x, mainPos.y, pair.mainPuyo)
    IN IF ~result1.ok \/ ~isEmptyAt(board, mainPos.x, mainPos.y)
       THEN err("InvalidMove")
       ELSE LET result2 == setPuyoAt(result1.value, secondPos.x, secondPos.y,
                                     pair.secondPuyo)
            IN IF ~result2.ok \/ ~isEmptyAt(board, secondPos.x, secondPos.y)
               THEN err("InvalidMove")
               ELSE ok(result2.value)

\* A variant of placeOnBoard that writes the main puyo only; the property of
\* C35 tells it from the original.
placeOnBoardMainOnly(pair, board) ==
    LET mainPos == getMainPosition(pair)
        result1 == setPuyoAt(board, mainPos.x, mainPos.y, pair.mainPuyo)
    IN IF ~result1.ok THEN err("InvalidMove") ELSE ok(result1.value)


placeOnBoard(pair, board) ==
    LET mainPos == getMainPosition(pair)
        secondPos == getSecondPosition(pair)
        result1 == setPuyoAt(board, mainPos.x, mainPos.y, pair.mainPuyo)
    IN IF ~result1.ok THEN err("InvalidMove")
       ELSE LET result2 == setPuyoAt(result1.value, secondPos.x, secondPos.y,
                                     pair.secondPuyo)
            IN IF ~result2.ok THEN err("InvalidMove") ELSE ok(result2.value)

\* A variant of canExecuteQuickTurn that is content with one blocked side;
\* the property of C17 tells it from the original.
canExecuteQuickTurnOneSide(pair, board) ==
    IF pair.rotation # UP /\ pair.rotation # DOWN THEN FALSE
    ELSE LET leftX == pair.position.x - 1
             rightX == pair.position.x + 1
             mainY == pair.position.y
             isLeftBlocked == leftX < 0 \/ ~isEmptyAt(board, leftX, mainY)
             isRightBlocked == rightX >= BOARD_WIDTH \/ ~isEmptyAt(board, rightX, mainY)
         IN isLeftBlocked \/ isRightBlocked

canExecuteQuickTurn(pair, board) ==
    IF pair.rotation # UP /\ pair.rotation # DOWN THEN FALSE
    ELSE LET leftX == pair.position.x - 1
             rightX == pair.position.x + 1
             mainY == pair.position.y
             isLeftBlocked == leftX < 0 \/ ~isEmptyAt(board, leftX, mainY)
             isRightBlocked == rightX >= BOARD_WIDTH \/ ~isEmptyAt(board, rightX, mainY)
         IN isLeftBlocked /\ isRightBlocked

executeQuickTurn(pair, board) ==
    IF canExecuteQuickTurn(pair, board)
    THEN LET newMainPosition == getSecondPosition(pair)
             newRotation == IF pair.rotation = UP THEN DOWN ELSE UP
         IN ok([pair EXCEPT !.rotation = newRotation, !.position = newMainPosition])
    ELSE err("InvalidMove")

(***************************************************************************)
(* Scoring                                                                 *)
(***************************************************************************)
getChainBonus(chainCount) ==
    IF chainCount <= 1 THEN 0
    ELSE IF chainCount <= 3 THEN 8 * (chainCount - 1)
    ELSE 32 * (chainCount - 3)

\* A variant of getConnectionBonus without the cap at 11; the property of C7
\* tells it from the original.
getConnectionBonusUncapped(connectionCount) ==
    IF connectionCount <= 4 THEN 0 ELSE connectionCount - 3

getConnectionBonus(connectionCount) ==
    IF connectionCount <= 4 THEN 0
    ELSE IF connectionCount >= 11 THEN 10
    ELSE connectionCount - 3

colorBonusTable == <<0, 3, 6, 12, 24>>

\* colorBonusTable[colorCount - 1] || 0 (the table is 0-indexed in the code)
getColorBonus(colorCount) ==
    IF colorCount - 1 >= 0 /\ colorCount - 1 < Len(colorBonusTable)
    THEN colorBonusTable[colorCount]
    ELSE 0

Max(a, b) == IF a >= b THEN a ELSE b

\* connectionCounts.reduce((sum, count) => sum + getConnectionBonus(count), 0)
RECURSIVE SumConnectionBonus(_)
SumConnectionBonus(connectionCounts) ==
    IF connectionCounts = <<>> THEN 0
    ELSE SumConnectionBonus(SubSeq(connectionCounts, 1, Len(connectionCounts) - 1))
         + getConnectionBonus(connectionCounts[Len(connectionCounts)])

\* A variant of calculateScore without the floor of 1 on the bonus; the
\* property of C9 tells it from the original.
calculateScoreNoFloor(chainCount, puyoCount, connectionCounts, colorCount) ==
    puyoCount * 10 * (getChainBonus(chainCount)
                      + SumConnectionBonus(connectionCounts)
                      + getColorBonus(colorCount))

calculateScore(chainCount, puyoCount, connectionCounts, colorCount) ==
    LET chainBonus == getChainBonus(chainCount)
        connectionBonus == SumConnectionBonus(connectionCounts)
        colorBonus == getColorBonus(colorCount)
        totalBonus == chainBonus + connectionBonus + colorBonus
    IN puyoCount * 10 * Max(totalBonus, 1)

(***************************************************************************)
(* Piece sequence: the cached table is a sequence of lines, each a         *)
(* sequence of one-character strings; Null stands for "not loaded".        *)
(***************************************************************************)
Null == <<>>

toLowerCase(ch) ==
    CASE ch = "R" -> "r" [] ch = "G" -> "g" [] ch = "B" -> "b"
      [] ch = "Y" -> "y" [] ch = "P" -> "p" [] OTHER -> ch

\* colorMap lookup with the default for unrecognized characters
decodeChar(ch) ==
    LET c == toLowerCase(ch) IN
    CASE c = "r" -> createPuyo("red")
      [] c = "g" -> createPuyo("green")
      [] c = "y" -> createPuyo("yellow")
      [] c = "b" -> createPuyo("blue")
      [] c = "p" -> createPuyo("purple")
      [] OTHER -> createPuyo("red")

createPuyoSeq(cached, seed) ==
    IF cached = Null
    THEN err("PuyoSeqNotLoaded")
    ELSE LET line == cached[(seed % Len(cached)) + 1]
         IN ok([seq |-> [i \in 1 .. Len(line) |-> decodeChar(line[i])]])

\* createPuyoSeq as puyoSeq.ts has it: no Result, and the default sequence
\* 'rgbyprgbyp' while the table is not cached.
createPuyoSeqOrDefault(cached, seed) ==
    IF cached = Null
    THEN [seq |-> [i \in 1 .. 10 |->
                     decodeChar(<<"r", "g", "b", "y", "p", "r", "g", "b", "y", "p">>[i])]]
    ELSE LET line == cached[(seed % Len(cached)) + 1]
         IN [seq |-> [i \in 1 .. Len(line) |-> decodeChar(line[i])]]


\* seq[i] with the code's 0-based index
SeqAt(puyoSeq, i) == puyoSeq.seq[i + 1]

(***************************************************************************)
(* Game                                                                    *)
(***************************************************************************)
GameStates == {"IDLE", "PLAYING", "DROPPING", "CHECKING_CHAINS", "FLASHING_PUYOS",
               "GAME_OVER"}

\* createGame: with the table not loaded it falls back to a default sequence
\* of random colours (createDefaultPuyoSeq), given here as defaultSeq.
createGame(cached, seed, defaultSeq) ==
    LET puyoSeqResult == createPuyoSeq(cached, seed)
        puyoSeq == IF ~puyoSeqResult.ok THEN defaultSeq ELSE puyoSeqResult.value
    IN [board |-> createBoard,
        currentPair |-> Null,
        nextPair |-> createPuyoPair(SeqAt(puyoSeq, 0), SeqAt(puyoSeq, 1)),
        state |-> "IDLE",
        score |-> 0,
        chainCount |-> 0,
        flashingTime |-> 0,
        puyoSeq |-> puyoSeq,
        moveCount |-> 1]

\* spawnNextPair drawing the next pair one place further along the sequence.
spawnNextPairShifted(game) ==
    LET currentPair == game.nextPair
        moveCount == game.moveCount
        seqLength == Len(game.puyoSeq.seq)
        mainPuyoIndex == (moveCount * 2 + 1) % seqLength
        secondPuyoIndex == (moveCount * 2 + 2) % seqLength
        nextPair == createPuyoPair(SeqAt(game.puyoSeq, mainPuyoIndex),
                                   SeqAt(game.puyoSeq, secondPuyoIndex))
        mainPos == getMainPosition(currentPair)
        secondPos == getSecondPosition(currentPair)
    IN IF ~isEmptyAt(game.board, mainPos.x, mainPos.y)
          \/ ~isEmptyAt(game.board, secondPos.x, secondPos.y)
       THEN [game EXCEPT !.currentPair = <<currentPair>>,
                         !.nextPair = nextPair,
                         !.state = "GAME_OVER"]
       ELSE [game EXCEPT !.currentPair = <<currentPair>>,
                         !.nextPair = nextPair,
                         !.moveCount = moveCount + 1]


\* spawnNextPair looking only at the cell above the spawn cell.
spawnNextPairAboveOnly(game) ==
    LET currentPair == game.nextPair
        moveCount == game.moveCount
        seqLength == Len(game.puyoSeq.seq)
        mainPuyoIndex == (moveCount * 2) % seqLength
        secondPuyoIndex == (moveCount * 2 + 1) % seqLength
        nextPair == createPuyoPair(SeqAt(game.puyoSeq, mainPuyoIndex),
                                   SeqAt(game.puyoSeq, secondPuyoIndex))
        secondPos == getSecondPosition(currentPair)
    IN IF ~isEmptyAt(game.board, secondPos.x, secondPos.y)
       THEN [game EXCEPT !.currentPair = <<currentPair>>,
                         !.nextPair = nextPair,
                         !.state = "GAME_OVER"]
       ELSE [game EXCEPT !.currentPair = <<currentPair>>,
                         !.nextPair = nextPair,
                         !.moveCount = moveCount + 1]


spawnNextPair(game) ==
    LET currentPair == game.nextPair
        moveCount == game.moveCount
        seqLength == Len(game.puyoSeq.seq)
        mainPuyoIndex == (moveCount * 2) % seqLength
        secondPuyoIndex == (moveCount * 2 + 1) % seqLength
        nextPair == createPuyoPair(SeqAt(game.puyoSeq, mainPuyoIndex),
                                   SeqAt(game.puyoSeq, secondPuyoIndex))
        mainPos == getMainPosition(currentPair)
        secondPos == getSecondPosition(currentPair)
    IN IF ~isEmptyAt(game.board, mainPos.x, mainPos.y)
          \/ ~isEmptyAt(game.board, secondPos.x, secondPos.y)
       THEN [game EXCEPT !.currentPair = <<currentPair>>,
                         !.nextPair = nextPair,
                         !.state = "GAME_OVER"]
       ELSE [game EXCEPT !.currentPair = <<currentPair>>,
                         !.nextPair = nextPair,
                         !.moveCount = moveCount + 1]

\* startGame without the reset of the board.
startGameKeepBoard(game, cached, seed) ==
    LET puyoSeqResult == createPuyoSeq(cached, seed) IN
    IF ~puyoSeqResult.ok
    THEN err("PuyoSeqNotLoaded")
    ELSE LET puyoSeq == puyoSeqResult.value
             nextPair == createPuyoPair(SeqAt(puyoSeq, 0), SeqAt(puyoSeq, 1))
             newGameBase == [game EXCEPT !.state = "PLAYING",
                                         !.score = 0,
                                         !.chainCount = 0,
                                         !.flashingTime = 0,
                                         !.nextPair = nextPair,
                                         !.puyoSeq = puyoSeq,
                                         !.moveCount = 1]
         IN ok(spawnNextPair(newGameBase))


\* startGame without the reset of moveCount.
startGameKeepMoveCount(game, cached, seed) ==
    LET puyoSeqResult == createPuyoSeq(cached, seed) IN
    IF ~puyoSeqResult.ok
    THEN err("PuyoSeqNotLoaded")
    ELSE LET puyoSeq == puyoSeqResult.value
             nextPair == createPuyoPair(SeqAt(puyoSeq, 0), SeqAt(puyoSeq, 1))
             newGameBase == [game EXCEPT !.board = createBoard,
                                         !.state = "PLAYING",
                                         !.score = 0,
                                         !.chainCount = 0,
                                         !.flashingTime = 0,
                                         !.nextPair = nextPair,
                                         !.puyoSeq = puyoSeq]
         IN ok(spawnNextPair(newGameBase))


startGame(game, cached, seed) ==
    LET puyoSeqResult == createPuyoSeq(cached, seed) IN
    IF ~puyoSeqResult.ok
    THEN err("PuyoSeqNotLoaded")
    ELSE LET puyoSeq == puyoSeqResult.value
             nextPair == createPuyoPair(SeqAt(puyoSeq, 0), SeqAt(puyoSeq, 1))
             newGameBase == [game EXCEPT !.board = createBoard,
                                         !.state = "PLAYING",
                                         !.score = 0,
                                         !.chainCount = 0,
                                         !.flashingTime = 0,
                                         !.nextPair = nextPair,
                                         !.puyoSeq = puyoSeq,
                                         !.moveCount = 1]
         IN ok(spawnNextPair(newGameBase))

\* A variant of moveLeftInGame that accepts the command in every state; the
\* property of C1 tells it from the original.
moveLeftInGameAnyState(game) ==
    IF game.currentPair = Null
    THEN err("InvalidState")
    ELSE LET result == moveLeft(game.currentPair[1], game.board) IN
         IF ~result.ok THEN ok(game)
         ELSE ok([game EXCEPT !.currentPair = <<result.value>>])

moveLeftInGame(game) ==
    IF game.state # "PLAYING" \/ game.currentPair = Null
    THEN err("InvalidState")
    ELSE LET result == moveLeft(game.currentPair[1], game.board) IN
         IF ~result.ok THEN ok(game)
         ELSE ok([game EXCEPT !.currentPair = <<result.value>>])

moveRightInGame(game) ==
    IF game.state # "PLAYING" \/ game.currentPair = Null
    THEN err("InvalidState")
    ELSE LET result == moveRight(game.currentPair[1], game.board) IN
         IF ~result.ok THEN ok(game)
         ELSE ok([game EXCEPT !.currentPair = <<result.value>>])

moveDownInGame(game) ==
    IF game.state # "PLAYING" \/ game.currentPair = Null
    THEN err("InvalidState")
    ELSE LET result == moveDown(game.currentPair[1], game.board) IN
         IF result.ok
         THEN ok([game EXCEPT !.currentPair = <<result.value>>])
         ELSE LET placeResult == placeOnBoard(game.currentPair[1], game.board) IN
              IF ~placeResult.ok THEN err("GameOver")
              ELSE ok([game EXCEPT !.board = placeResult.value,
                                   !.currentPair = Null,
                                   !.state = "DROPPING"])

\* A variant of rotateClockwiseInGame that absorbs a failed rotation as a
\* no-op, the way the moves do; the property of C15 tells it from the original.
rotateClockwiseInGameSilent(game) ==
    IF game.state # "PLAYING" \/ game.currentPair = Null
    THEN err("InvalidState")
    ELSE LET result == rotateClockwise(game.currentPair[1], game.board) IN
         IF ~result.ok THEN ok(game)
         ELSE ok([game EXCEPT !.currentPair = <<result.value>>])

rotateClockwiseInGame(game) ==
    IF game.state # "PLAYING" \/ game.currentPair = Null
    THEN err("InvalidState")
    ELSE LET result == rotateClockwise(game.currentPair[1], game.board) IN
         IF ~result.ok THEN err("InvalidState")
         ELSE ok([game EXCEPT !.currentPair = <<result.value>>])

rotateCounterClockwiseInGame(game) ==
    IF game.state # "PLAYING" \/ game.currentPair = Null
    THEN err("InvalidState")
    ELSE LET result == rotateCounterClockwise(game.currentPair[1], game.board) IN
         IF ~result.ok THEN err("InvalidState")
         ELSE ok([game EXCEPT !.currentPair = <<result.value>>])

executeQuickTurnInGame(game) ==
    IF game.state # "PLAYING" \/ game.currentPair = Null
    THEN err("InvalidState")
    ELSE LET result == executeQuickTurn(game.currentPair[1], game.board) IN
         IF ~result.ok THEN err("InvalidState")
         ELSE ok([game EXCEPT !.currentPair = <<result.value>>])

\* A variant of the loop of hardDrop that stops one row short of an occupied
\* cell or the floor; the property of C18 tells it from the original.
RECURSIVE DropLoopShort(_, _)
DropLoopShort(currentPair, board) ==
    LET result == moveDown(currentPair, board) IN
    IF result.ok /\ moveDown(result.value, board).ok
    THEN DropLoopShort(result.value, board)
    ELSE currentPair

\* The while loop of hardDrop: moveDown until it fails.
\* A variant of the drop loop that pushes the pair one row further than
\* moveDown allows; the property of C36 tells it from the original.
RECURSIVE DropLoopOneMore(_, _)
DropLoopOneMore(currentPair, board) ==
    LET result == moveDown(currentPair, board) IN
    IF result.ok THEN DropLoopOneMore(result.value, board)
    ELSE [currentPair EXCEPT !.position.y = currentPair.position.y + 1]


RECURSIVE DropLoop(_, _)
DropLoop(currentPair, board) ==
    LET result == moveDown(currentPair, board) IN
    IF result.ok THEN DropLoop(result.value, board) ELSE currentPair

\* A variant of hardDrop that leaves the landed pair in the snapshot; the
\* property of C12 tells it from the original.
hardDropKeepsPair(game) ==
    IF game.state # "PLAYING" \/ game.currentPair = Null
    THEN err("InvalidState")
    ELSE LET currentPair == DropLoop(game.currentPair[1], game.board)
             placeResult == placeOnBoard(currentPair, game.board)
         IN IF ~placeResult.ok THEN err("GameOver")
            ELSE ok([game EXCEPT !.board = placeResult.value,
                                 !.currentPair = <<currentPair>>,
                                 !.state = "DROPPING"])

hardDrop(game) ==
    IF game.state # "PLAYING" \/ game.currentPair = Null
    THEN err("InvalidState")
    ELSE LET currentPair == DropLoop(game.currentPair[1], game.board)
             placeResult == placeOnBoard(currentPair, game.board)
         IN IF ~placeResult.ok THEN err("GameOver")
            ELSE ok([game EXCEPT !.board = placeResult.value,
                                 !.currentPair = Null,
                                 !.state = "DROPPING"])

(***************************************************************************)
(* Chain detection and removal                                             *)
(***************************************************************************)
\* findConnectedPuyos: depth-first search; acc is [visited, group], visited a
\* set of <<x, y>> and group the sequence of positions in the order pushed.
\* A variant of findConnectedPuyos that lets the search enter the ghost row;
\* the property of C6 tells it from the original.
RECURSIVE findConnectedPuyosWithGhost(_, _, _, _, _)
findConnectedPuyosWithGhost(board, x, y, color, acc) ==
    IF \/ isOutOfBounds(board, x, y)
       \/ <<x, y>> \in acc.visited
       \/ isEmptyAt(board, x, y)
       \/ getPuyoAt(board, x, y).color # color
       \/ isCraneRow(y)
    THEN acc
    ELSE LET a0 == [visited |-> acc.visited \cup {<<x, y>>},
                    group |-> Append(acc.group, createPosition(x, y))]
             a1 == findConnectedPuyosWithGhost(board, x + 1, y, color, a0)
             a2 == findConnectedPuyosWithGhost(board, x - 1, y, color, a1)
             a3 == findConnectedPuyosWithGhost(board, x, y + 1, color, a2)
         IN findConnectedPuyosWithGhost(board, x, y - 1, color, a3)

RECURSIVE findConnectedPuyos(_, _, _, _, _)
findConnectedPuyos(board, x, y, color, acc) ==
    IF \/ isOutOfBounds(board, x, y)
       \/ <<x, y>> \in acc.visited
       \/ isEmptyAt(board, x, y)
       \/ getPuyoAt(board, x, y).color # color
       \/ isGhostRow(y)
       \/ isCraneRow(y)
    THEN acc
    ELSE LET a0 == [visited |-> acc.visited \cup {<<x, y>>},
                    group |-> Append(acc.group, createPosition(x, y))]
             a1 == findConnectedPuyos(board, x + 1, y, color, a0)
             a2 == findConnectedPuyos(board, x - 1, y, color, a1)
             a3 == findConnectedPuyos(board, x, y + 1, color, a2)
         IN findConnectedPuyos(board, x, y - 1, color, a3)

\* The marking loop over one group, from element i on.
RECURSIVE MarkGroup(_, _, _)
MarkGroup(board, group, i) ==
    IF i > Len(group) THEN board
    ELSE LET pos == group[i]
             puyo == getPuyoAt(board, pos.x, pos.y)
             result == setPuyoAt(board, pos.x, pos.y, markPuyoForDeletion(puyo))
         IN MarkGroup(IF result.ok THEN result.value ELSE board, group, i + 1)

\* The body of the scan loop of checkAndMarkChainsForDeletion at (x, y); st is
\* [board, visited, chainsFound, groupConnections, totalPuyoCount, uniqueColors].
ScanCell(st, x, y) ==
    IF <<x, y>> \in st.visited \/ isEmptyAt(st.board, x, y)
    THEN st
    ELSE LET color == getPuyoAt(st.board, x, y).color
             found == findConnectedPuyos(st.board, x, y, color,
                                         [visited |-> st.visited, group |-> <<>>])
         IN IF Len(found.group) >= 4
            THEN [board |-> MarkGroup(st.board, found.group, 1),
                  visited |-> found.visited,
                  chainsFound |-> TRUE,
                  groupConnections |-> Append(st.groupConnections, Len(found.group)),
                  totalPuyoCount |-> st.totalPuyoCount + Len(found.group),
                  uniqueColors |-> st.uniqueColors \cup {color}]
            ELSE [st EXCEPT !.visited = found.visited]

\* The inner scan loop for row y: x ascending.
RECURSIVE ScanRow(_, _, _)
ScanRow(st, x, y) ==
    IF st.chainsFound \in BOOLEAN /\ x >= BOARD_WIDTH THEN st
    ELSE ScanRow(ScanCell(st, x, y), x + 1, y)

\* The outer scan loop: y from NORMAL_FIELD_START to grid.length - 1.
RECURSIVE ScanLoop(_, _)
ScanLoop(st, y) ==
    IF y >= GridLength(st.board) THEN st
    ELSE ScanLoop(ScanRow(st, 0, y), y + 1)

ScanBoard(board) ==
    ScanLoop([board |-> board, visited |-> {}, chainsFound |-> FALSE,
              groupConnections |-> <<>>, totalPuyoCount |-> 0, uniqueColors |-> {}],
             NORMAL_FIELD_START)

\* A variant of checkAndMarkChainsForDeletion that scores the step with the
\* chain index of the step before; the property of C8 tells it from the
\* original.
checkAndMarkChainsForDeletionLate(board, chainCount) ==
    LET st == ScanBoard(board) IN
    [board |-> st.board,
     chainsFound |-> st.chainsFound,
     score |-> IF st.chainsFound
               THEN calculateScore(chainCount, st.totalPuyoCount,
                                   st.groupConnections, Cardinality(st.uniqueColors))
               ELSE 0]

checkAndMarkChainsForDeletion(board, chainCount) ==
    LET st == ScanBoard(board) IN
    [board |-> st.board,
     chainsFound |-> st.chainsFound,
     score |-> IF st.chainsFound
               THEN calculateScore(chainCount + 1, st.totalPuyoCount,
                                   st.groupConnections, Cardinality(st.uniqueColors))
               ELSE 0]

\* removeMarkedPuyos starting one row below the top of the normal field.
removeMarkedPuyosBelowTop(board) ==
    [grid |-> [y \in DOMAIN board.grid |-> [x \in DOMAIN board.grid[y] |->
        IF y > NORMAL_FIELD_START
           /\ ~isEmpty(board.grid[y][x])
           /\ board.grid[y][x].state = "marked_for_deletion"
        THEN createEmptyPuyo
        ELSE board.grid[y][x]]]]


removeMarkedPuyos(board) ==
    [grid |-> [y \in DOMAIN board.grid |-> [x \in DOMAIN board.grid[y] |->
        IF y >= NORMAL_FIELD_START
           /\ ~isEmpty(board.grid[y][x])
           /\ board.grid[y][x].state = "marked_for_deletion"
        THEN createEmptyPuyo
        ELSE board.grid[y][x]]]]

(***************************************************************************)
(* updateGame: one tick of the state machine                               *)
(***************************************************************************)
\* A variant of the DROPPING case that goes on to CHECKING_CHAINS after every
\* gravity step; the property of C2 tells it from the original.
updateDroppingOnce(game) ==
    [game EXCEPT !.board = applyGravity(game.board).board, !.state = "CHECKING_CHAINS"]

\* A variant of updateDropping that goes on to the chain check after the
\* first call of applyGravity, whether or not a puyo moved; the property of
\* C34 tells it from the original.
updateDroppingHasty(game) ==
    [game EXCEPT !.board = applyGravity(game.board).board, !.state = "CHECKING_CHAINS"]


updateDropping(game) ==
    LET g == applyGravity(game.board) IN
    IF g.moved
    THEN [game EXCEPT !.board = g.board]
    ELSE [game EXCEPT !.board = g.board, !.state = "CHECKING_CHAINS"]

\* A variant of the CHECKING_CHAINS case that keeps the chain counter when no
\* group is found; the property of C10 tells it from the original.
updateCheckingChainsKeepCount(game) ==
    LET c == checkAndMarkChainsForDeletion(game.board, game.chainCount) IN
    IF c.chainsFound
    THEN [game EXCEPT !.board = c.board,
                      !.state = "FLASHING_PUYOS",
                      !.score = game.score + c.score,
                      !.chainCount = game.chainCount + 1,
                      !.flashingTime = 0]
    ELSE LET gameWithNextPair == spawnNextPair([game EXCEPT !.board = c.board])
         IN IF gameWithNextPair.state # "GAME_OVER"
            THEN [gameWithNextPair EXCEPT !.state = "PLAYING"]
            ELSE gameWithNextPair

\* A variant of the CHECKING_CHAINS case that goes back to PLAYING even when
\* the spawn was blocked; the property of C3 tells it from the original.
updateCheckingChainsNeverOver(game) ==
    LET c == checkAndMarkChainsForDeletion(game.board, game.chainCount) IN
    IF c.chainsFound
    THEN [game EXCEPT !.board = c.board,
                      !.state = "FLASHING_PUYOS",
                      !.score = game.score + c.score,
                      !.chainCount = game.chainCount + 1,
                      !.flashingTime = 0]
    ELSE [spawnNextPair([game EXCEPT !.board = c.board, !.chainCount = 0])
             EXCEPT !.state = "PLAYING"]

updateCheckingChains(game) ==
    LET c == checkAndMarkChainsForDeletion(game.board, game.chainCount) IN
    IF c.chainsFound
    THEN [game EXCEPT !.board = c.board,
                      !.state = "FLASHING_PUYOS",
                      !.score = game.score + c.score,
                      !.chainCount = game.chainCount + 1,
                      !.flashingTime = 0]
    ELSE LET gameWithNextPair ==
                 spawnNextPair([game EXCEPT !.board = c.board, !.chainCount = 0])
         IN IF gameWithNextPair.state # "GAME_OVER"
            THEN [gameWithNextPair EXCEPT !.state = "PLAYING"]
            ELSE gameWithNextPair

\* A variant of the FLASHING_PUYOS case that ends the flashing only above
\* the duration plus one frame; the property of C4 tells it from the original.
updateFlashingLate(game) ==
    LET newFlashingTime == game.flashingTime + FRAME_MS IN
    IF newFlashingTime > FLASHING_DURATION + FRAME_MS
    THEN [game EXCEPT !.board = removeMarkedPuyos(game.board),
                      !.state = "DROPPING",
                      !.flashingTime = 0]
    ELSE [game EXCEPT !.flashingTime = newFlashingTime]

\* A variant of the FLASHING_PUYOS case whose timer wraps around instead of
\* ending the flashing; the property of C5 tells it from the original.
updateFlashingForever(game) ==
    [game EXCEPT !.flashingTime = (game.flashingTime + FRAME_MS) % FLASHING_DURATION]

updateFlashing(game) ==
    LET newFlashingTime == game.flashingTime + FRAME_MS IN
    IF newFlashingTime >= FLASHING_DURATION
    THEN [game EXCEPT !.board = removeMarkedPuyos(game.board),
                      !.state = "DROPPING",
                      !.flashingTime = 0]
    ELSE [game EXCEPT !.flashingTime = newFlashingTime]

\* A variant of updateGame with the auto-drop the PLAYING case leaves to a
\* timer: the pair moves down one row per frame; the property of C31 tells
\* it from the original.
updateGameAutoDrop(game) ==
    CASE game.state = "IDLE" -> game
      [] game.state = "PLAYING" ->
            LET r == moveDownInGame(game) IN IF r.ok THEN r.value ELSE game
      [] game.state = "DROPPING" -> updateDropping(game)
      [] game.state = "CHECKING_CHAINS" -> updateCheckingChains(game)
      [] game.state = "FLASHING_PUYOS" -> updateFlashing(game)
      [] game.state = "GAME_OVER" -> game

updateGame(game) ==
    CASE game.state = "IDLE" -> game
      [] game.state = "PLAYING" -> game
      [] game.state = "DROPPING" -> updateDropping(game)
      [] game.state = "CHECKING_CHAINS" -> updateCheckingChains(game)
      [] game.state = "FLASHING_PUYOS" -> updateFlashing(game)
      [] game.state = "GAME_OVER" -> game

(***************************************************************************)
(* The state machine of a running program                                  *)
(***************************************************************************)
VARIABLES
    game,             \* the controller's current snapshot (this.game)
    result,           \* the Result of the command just handled: "ok" or the error
                      \* type, "none" when the last step was not a command
    cachedSequences,  \* the module-level cache of the sequence table, or Null
    script,           \* the commands the player issues first, in this order
    budget,           \* how many further pairs the player may steer and drop freely
    origin,           \* the name of the snapshot the run started from
    scoreArgs,        \* the arguments of a calculateScore call
    scoreOut,         \* what that call returned, <<>> before the call
    callArgs,         \* the arguments of a call of a board or pair function
    callOut           \* the calls made on them so far: <<[op, result]>>, oldest first

vars == <<game, result, cachedSequences, script, budget, origin, scoreArgs, scoreOut,
          callArgs, callOut>>

\* The variables of the scoring harness, unused while a game is simulated.
scoreVars == <<scoreArgs, scoreOut>>
NoScoreArgs == [chainCount |-> 0, puyoCount |-> 0, connectionCounts |-> <<>>, colorCount |-> 0]

\* The variables of the function-call harness, unused elsewhere.
callVars == <<callArgs, callOut>>
NoCallArgs == [board |-> <<>>]

\* Bounds of the exploration
MaxDrops == 1
MaxSeed == 3

Seeds == 0 .. MaxSeed

\* The lines of the sequence file the model explores.
LineA == <<"b", "b", "b", "r", "r", "r", "r", "b">>
LineB == <<"r", "r", "b", "b">>
LineC == <<"R", "r", "x", "r", "g", "Y">>
FileLines == <<LineA, LineB, LineC>>
\* The table cached when loading fails: ['rgbyprgbyp']
FallbackLines == << <<"r", "g", "b", "y", "p", "r", "g", "b", "y", "p">> >>

\* The first two puyos of the random default sequence of createGame.
DefaultSeqs ==
    {[seq |-> <<createPuyo(a), createPuyo(b)>>] : a \in {"red", "blue"}, b \in {"red", "blue"}}

\* Opening scripts: ScriptA stacks three "b" in column 0 and three "r" in
\* column 1 (line A), ScriptB drops five pairs down column 2 (line B).
ScriptA == <<"moveLeft", "moveLeft", "hardDrop",
             "rotateClockwise", "moveLeft", "moveLeft", "hardDrop",
             "moveLeft", "hardDrop">>
ScriptB == <<"hardDrop", "hardDrop", "hardDrop", "hardDrop", "hardDrop">>
\* ScriptC drops the first pair of line C where it spawns.
ScriptC == <<"hardDrop">>
\* ScriptD lays the first pair of line B flat on columns 2 and 3 and drops
\* six more pairs down column 2, the last of which comes to rest on rows 1
\* and 2.
ScriptD == <<"rotateClockwise", "hardDrop", "hardDrop", "hardDrop", "hardDrop",
             "hardDrop", "hardDrop", "hardDrop">>

\* ScriptE stacks six pairs of the fallback line on column 1, lays the
\* seventh flat on columns 2 and 3 and stacks five more on column 2 (no two
\* neighbours share a colour, so nothing clears); the next pair is rotated
\* clockwise four times, the second rotation kicking it up to row 1, moved
\* onto column 1 and dropped.
ScriptE == <<"moveLeft", "hardDrop", "moveLeft", "hardDrop", "moveLeft", "hardDrop",
             "moveLeft", "hardDrop", "moveLeft", "hardDrop", "moveLeft", "hardDrop",
             "rotateClockwise", "hardDrop",
             "hardDrop", "hardDrop", "hardDrop", "hardDrop", "hardDrop",
             "rotateClockwise", "rotateClockwise", "rotateClockwise", "rotateClockwise",
             "moveLeft", "hardDrop">>

\* The opening played after startGame(seed): the script of its line for the
\* seeds below the number of lines, none for the seeds that wrap around.
ScriptsFor(cached, seed) ==
    IF cached = FileLines /\ seed = 0 THEN {ScriptA}
    ELSE IF cached = FileLines /\ seed = 1 THEN {ScriptB, ScriptD}
    ELSE IF cached = FileLines /\ seed = 2 THEN {ScriptC}
    ELSE IF cached = FallbackLines /\ seed = 0 THEN {<<>>, ScriptE}
    ELSE {<<>>}

Commands == {"moveLeft", "moveRight", "rotateClockwise", "rotateCounterClockwise",
             "quickTurn", "hardDrop"}

\* What the player may issue: anything while the game is not PLAYING (it
\* is rejected), the scripted command while a script is pending, and
\* afterwards any command as long as the budget of freely steered pairs lasts.
PlayerMay(cmd) ==
    \/ game.state # "PLAYING"
    \/ script # <<>> /\ Head(script) = cmd
    \/ script = <<>> /\ budget > 0

Init ==
    /\ cachedSequences = Null
    /\ game \in {createGame(Null, 0, d) : d \in DefaultSeqs}
    /\ result = "none"
    /\ script = <<>>
    /\ budget = 0
    /\ origin = "createGame"
    /\ scoreArgs = NoScoreArgs
    /\ scoreOut = <<>>
    /\ callArgs = NoCallArgs
    /\ callOut = <<>>

\* loadSequences completes: the file's lines, or the fallback on failure.
LoadSequences ==
    /\ cachedSequences = Null
    /\ cachedSequences' \in {FileLines, FallbackLines}
    /\ UNCHANGED <<game, result, script, budget, origin, scoreVars, callVars>>

\* GameController.startGame
StartGame ==
    \E seed \in Seeds :
        LET r == startGame(game, cachedSequences, seed) IN
        /\ game' = IF r.ok THEN r.value ELSE game
        /\ result' = IF r.ok THEN "ok" ELSE r.error
        /\ IF r.ok
           THEN /\ script' \in ScriptsFor(cachedSequences, seed)
                /\ budget' = MaxDrops
           ELSE UNCHANGED <<script, budget>>
        /\ UNCHANGED <<cachedSequences, origin, scoreVars, callVars>>

\* A key handler: call the domain function, keep its value when ok.
Handle(cmd, r) ==
    /\ game' = IF r.ok THEN r.value ELSE game
    /\ result' = IF r.ok THEN "ok" ELSE r.error
    /\ script' = IF game.state = "PLAYING" /\ script # <<>> THEN Tail(script) ELSE script
    /\ budget' = IF game.state = "PLAYING" /\ script = <<>> /\ cmd = "hardDrop"
                 THEN budget - 1 ELSE budget
    /\ UNCHANGED <<cachedSequences, origin, scoreVars, callVars>>

MoveLeft ==
    /\ PlayerMay("moveLeft")
    /\ Handle("moveLeft", moveLeftInGame(game))

MoveRight ==
    /\ PlayerMay("moveRight")
    /\ Handle("moveRight", moveRightInGame(game))

RotateClockwise ==
    /\ PlayerMay("rotateClockwise")
    /\ Handle("rotateClockwise", rotateClockwiseInGame(game))

RotateCounterClockwise ==
    /\ PlayerMay("rotateCounterClockwise")
    /\ Handle("rotateCounterClockwise", rotateCounterClockwiseInGame(game))

QuickTurn ==
    /\ PlayerMay("quickTurn")
    /\ Handle("quickTurn", executeQuickTurnInGame(game))

HardDrop ==
    /\ PlayerMay("hardDrop")
    /\ Handle("hardDrop", hardDrop(game))

\* gameLoop: one updateGame per frame; no command's Result is around.
Tick ==
    /\ game' = updateGame(game)
    /\ result' = "none"
    /\ UNCHANGED <<cachedSequences, script, budget, origin, scoreVars, callVars>>

Next ==
    \/ LoadSequences
    \/ StartGame
    \/ MoveLeft
    \/ MoveRight
    \/ RotateClockwise
    \/ RotateCounterClockwise
    \/ QuickTurn
    \/ HardDrop
    \/ Tick

Spec == Init /\ [][Next]_vars

(***************************************************************************)
(* Snapshots handed to updateGame directly, as the test suite builds them  *)
(***************************************************************************)
\* The loop of setupGameWithBoard over the characters of one line, placed in
\* row y; a rejected setPuyoAt leaves the board as it was. (Reading the board
\* in the loop test makes the evaluator finish one iteration before the next.)
RECURSIVE PlaceLine(_, _, _, _)
PlaceLine(board, line, x, y) ==
    IF DOMAIN board.grid = Rows /\ x > Len(line) THEN board
    ELSE LET char == line[x]
             color == CASE char = "R" -> "red"
                        [] char = "B" -> "blue"
                        [] char = "Y" -> "yellow"
                        [] char = "G" -> "green"
                        [] char = "P" -> "purple"
                        [] OTHER -> "none"
             r == setPuyoAt(board, x - 1, y, createPuyo(color))
         IN PlaceLine(IF char # "." /\ color # "none" /\ r.ok THEN r.value ELSE board,
                      line, x + 1, y)

\* The loop of setupGameWithBoard over the lines, the last line first: line
\* number Len(lines) - i goes to row NORMAL_FIELD_START + i.
RECURSIVE PlaceLines(_, _, _)
PlaceLines(board, lines, i) ==
    IF DOMAIN board.grid = Rows /\ i >= Len(lines) THEN board
    ELSE PlaceLines(PlaceLine(board, lines[Len(lines) - i], 1, NORMAL_FIELD_START + i),
                    lines, i + 1)

setupGameWithBoard(lines) ==
    LET game0 == startGame(createGame(FileLines, 0, CHOOSE d \in DefaultSeqs : TRUE),
                           FileLines, 0).value
    IN [game0 EXCEPT !.board = PlaceLines(game0.board, lines, 0),
                     !.state = "DROPPING"]

Dots == <<".", ".", ".", ".", ".", ".">>
\* The four boards of the "Score calculation" tests, as written there.
Board920 ==
    <<Dots, Dots, Dots, Dots, Dots, Dots, Dots, Dots, Dots,
      <<"B", "R", "B", ".", ".", ".">>,
      <<"R", "R", "R", ".", ".", ".">>,
      <<"B", "R", "B", ".", ".", ".">>,
      <<"B", "R", "B", ".", ".", ".">>,
      <<"B", "R", "B", ".", ".", ".">> >>
Board1160 ==
    <<Dots, Dots, Dots, Dots, Dots, Dots, Dots, Dots, Dots,
      <<"B", "R", "Y", ".", ".", ".">>,
      <<"R", "R", "R", ".", ".", ".">>,
      <<"B", "R", "Y", ".", ".", ".">>,
      <<"B", "R", "Y", ".", ".", ".">>,
      <<"B", "R", "Y", ".", ".", ".">> >>
Board1380 ==
    <<Dots, Dots, Dots, Dots, Dots, Dots, Dots,
      <<"B", ".", ".", ".", ".", ".">>,
      <<"B", ".", ".", ".", ".", ".">>,
      <<"B", "R", "B", ".", ".", ".">>,
      <<"R", "R", "R", ".", ".", ".">>,
      <<"B", "R", "B", ".", ".", ".">>,
      <<"B", "R", "B", ".", ".", ".">>,
      <<"B", "R", "B", ".", ".", ".">> >>
Board1480 ==
    <<Dots, Dots, Dots, Dots, Dots, Dots, Dots, Dots,
      <<"B", ".", "B", ".", ".", ".">>,
      <<"B", "R", "B", ".", ".", ".">>,
      <<"R", "R", "R", ".", ".", ".">>,
      <<"B", "R", "B", ".", ".", ".">>,
      <<"B", "R", "B", ".", ".", ".">>,
      <<"B", "R", "B", ".", ".", ".">> >>

TestBoards ==
    [test920 |-> Board920, test1160 |-> Board1160,
     test1380 |-> Board1380, test1480 |-> Board1480]

\* Settled stacks: a column holds `height` puyos standing on the floor, the
\* topmost ones coloured by `top` (top first), the rest a green/yellow
\* checkerboard in which no two neighbours match.
TickHeight == 4

Filler(x, y) == createPuyo(IF (x + y) % 2 = 0 THEN "green" ELSE "yellow")

Tops(height, most) ==
    LET n == IF height < most THEN height ELSE most
    IN [1 .. n -> {"red", "blue"}]

Stacks(heights, most) ==
    UNION {{[height |-> h, top |-> t] : t \in Tops(h, most)} : h \in heights}

StackCell(stack, x, y) ==
    LET first == TotalHeight - stack.height
    IN IF y < first THEN createEmptyPuyo
       ELSE IF y - first < Len(stack.top) THEN createPuyo(stack.top[y - first + 1])
       ELSE Filler(x, y)

StackBoard(s0, s1, s2) ==
    [grid |-> [y \in Rows |-> [x \in Cols |->
        CASE x = 0 -> StackCell(s0, x, y)
          [] x = 1 -> StackCell(s1, x, y)
          [] x = 2 -> StackCell(s2, x, y)
          [] OTHER -> createEmptyPuyo]]]

StackBoards ==
    {StackBoard(s0, s1, s2) :
        s0 \in Stacks({0, 3, 4, 12, 13, 14}, TickHeight),
        s1 \in Stacks({0, 4, 12, 13}, 2),
        s2 \in Stacks({0, 12}, 0)}

\* A landing just happened on a stack board: hardDrop left state DROPPING and
\* no current pair.
StackSnapshots ==
    LET game0 == startGame(createGame(FileLines, 0, CHOOSE d \in DefaultSeqs : TRUE),
                           FileLines, 0).value
    IN {[game0 EXCEPT !.board = b, !.state = "DROPPING", !.currentPair = Null] :
            b \in StackBoards}

InitTick ==
    /\ cachedSequences = FileLines
    /\ \/ /\ origin \in DOMAIN TestBoards
          /\ game = setupGameWithBoard(TestBoards[origin])
       \/ /\ origin = "stacks"
          /\ game \in StackSnapshots
    /\ result = "none"
    /\ script = <<>>
    /\ budget = 0
    /\ scoreArgs = NoScoreArgs
    /\ scoreOut = <<>>
    /\ callArgs = NoCallArgs
    /\ callOut = <<>>

NextTick == Tick

SpecTick == InitTick /\ [][NextTick]_vars

\* ENABLED <<Tick>>_vars as a state predicate: a tick would change a variable.
TickEnabled == updateGame(game) # game \/ result # "none"

\* The game loop keeps running, every frame calls updateGame: weak fairness
\* of Tick, WF_vars(Tick), with its ENABLED <<Tick>>_vars written as
\* TickEnabled.
TickFair == []<>(~TickEnabled) \/ []<><<Tick>>_vars

SpecTickFair == SpecTick /\ TickFair

(***************************************************************************)
(* calculateScore called on its own                                        *)
(***************************************************************************)
MaxChain == 6
MaxGroups == 2
MaxGroupSize == 12

\* The lists of group sizes a clear step can hand over: every group has at
\* least 4 cells.
GroupSizeLists == UNION {[1 .. n -> 4 .. MaxGroupSize] : n \in 1 .. MaxGroups}

RECURSIVE SumOf(_)
SumOf(sizes) == IF sizes = <<>> THEN 0 ELSE Head(sizes) + SumOf(Tail(sizes))

ScoreInputs ==
    {[chainCount |-> c, puyoCount |-> SumOf(sizes), connectionCounts |-> sizes,
      colorCount |-> k] :
        c \in 1 .. MaxChain, sizes \in GroupSizeLists, k \in 1 .. Cardinality(PuyoColors)}

InitScore ==
    /\ cachedSequences = Null
    /\ game = createGame(Null, 0, CHOOSE d \in DefaultSeqs : TRUE)
    /\ result = "none"
    /\ script = <<>>
    /\ budget = 0
    /\ origin = "calculateScore"
    /\ scoreArgs \in ScoreInputs
    /\ scoreOut = <<>>
    /\ callArgs = NoCallArgs
    /\ callOut = <<>>

Score ==
    /\ scoreOut = <<>>
    /\ callArgs = NoCallArgs
    /\ callOut = <<>>
    /\ scoreOut' = <<calculateScore(scoreArgs.chainCount, scoreArgs.puyoCount,
                                    scoreArgs.connectionCounts, scoreArgs.colorCount)>>
    /\ UNCHANGED <<game, result, cachedSequences, script, budget, origin, scoreArgs, callVars>>

NextScore == Score

SpecScore == InitScore /\ [][NextScore]_vars

(***************************************************************************)
(* Steering a pair over settled stacks: the snapshot after a cascade has   *)
(* ended and the second pair of the sequence has been spawned              *)
(***************************************************************************)
SteerDrops == 1

\* The heights of the columns next to the spawn column and of the spawn
\* column itself; the other columns are empty. The spawn cells stay free.
SideHeights == {0, 11, 12, 13}
SpawnHeights == {0, 10, 11}

SteerBoard(h1, h2, h3) ==
    [grid |-> [y \in Rows |-> [x \in Cols |->
        CASE x = 1 -> StackCell([height |-> h1, top |-> <<>>], x, y)
          [] x = 2 -> StackCell([height |-> h2, top |-> <<>>], x, y)
          [] x = 3 -> StackCell([height |-> h3, top |-> <<>>], x, y)
          [] OTHER -> createEmptyPuyo]]]

SteerBoards ==
    {SteerBoard(h1, h2, h3) : h1 \in SideHeights, h2 \in SpawnHeights, h3 \in SideHeights}

SteerSnapshots ==
    LET game0 == startGame(createGame(FileLines, 0, CHOOSE d \in DefaultSeqs : TRUE),
                           FileLines, 0).value
    IN {spawnNextPair([game0 EXCEPT !.board = b, !.currentPair = Null]) :
            b \in SteerBoards}

InitSteer ==
    /\ cachedSequences = FileLines
    /\ origin = "steer"
    /\ game \in SteerSnapshots
    /\ result = "none"
    /\ script = <<>>
    /\ budget = SteerDrops
    /\ scoreArgs = NoScoreArgs
    /\ scoreOut = <<>>
    /\ callArgs = NoCallArgs
    /\ callOut = <<>>

NextSteer ==
    \/ MoveLeft
    \/ MoveRight
    \/ RotateClockwise
    \/ RotateCounterClockwise
    \/ QuickTurn
    \/ HardDrop
    \/ Tick

SpecSteer == InitSteer /\ [][NextSteer]_vars

(***************************************************************************)
(* Vocabulary of the properties, independent of the operators above        *)
(***************************************************************************)
AllCells == Cols \X Rows
NormalField == Cols \X (NORMAL_FIELD_START .. TotalHeight - 1)
CellAt(board, p) == board.grid[p[2]][p[1]]
Occupied(board, p) == CellAt(board, p).color # "none"
Marked(board, p) == Occupied(board, p) /\ CellAt(board, p).state = "marked_for_deletion"
MarkedCells(board) == {p \in AllCells : Marked(board, p)}

Neighbours(p, q) ==
    \/ p[1] = q[1] /\ (p[2] = q[2] + 1 \/ q[2] = p[2] + 1)
    \/ p[2] = q[2] /\ (p[1] = q[1] + 1 \/ q[1] = p[1] + 1)

\* The least set holding `cells` and closed under "a normal-field neighbour
\* of the same colour": grown from the frontier `fresh`.
RECURSIVE Grow(_, _, _)
Grow(board, cells, fresh) ==
    LET more == {q \in NormalField \ cells :
                    /\ Occupied(board, q)
                    /\ \E p \in fresh : /\ Neighbours(p, q)
                                        /\ CellAt(board, q).color = CellAt(board, p).color}
    IN IF more = {} THEN cells ELSE Grow(board, cells \cup more, more)

\* The maximal connected same-colour components of the normal field.
Components(board) ==
    {Grow(board, {p}, {p}) : p \in {q \in NormalField : Occupied(board, q)}}
ClearedGroups(board) == {c \in Components(board) : Cardinality(c) >= 4}
ClearedCells(board) == UNION ClearedGroups(board)
ClearedColors(board) == {CellAt(board, p).color : p \in ClearedCells(board)}

\* The sizes of a set of groups, in some order.
RECURSIVE SizesOf(_)
SizesOf(groups) ==
    IF groups = {} THEN <<>>
    ELSE LET g == CHOOSE c \in groups : TRUE
         IN <<Cardinality(g)>> \o SizesOf(groups \ {g})

\* One step of falling, cell by cell: a puyo below the crane row falls one
\* row exactly when some cell beneath it in its column is empty.
Falls(board, x, y) ==
    /\ y >= GHOST_ROW
    /\ Occupied(board, <<x, y>>)
    /\ \E below \in y + 1 .. TotalHeight - 1 : ~Occupied(board, <<x, below>>)
OneStepFall(board) ==
    [grid |-> [y \in Rows |-> [x \in Cols |->
        IF y > GHOST_ROW /\ Falls(board, x, y - 1) THEN CellAt(board, <<x, y - 1>>)
        ELSE IF Falls(board, x, y) THEN createEmptyPuyo
        ELSE CellAt(board, <<x, y>>)]]]

\* The spawn cells of a fresh pair: the anchor and the cell above it.
SpawnBlocked(board) ==
    \/ Occupied(board, <<BOARD_WIDTH \div 2 - 1, NORMAL_FIELD_START>>)
    \/ Occupied(board, <<BOARD_WIDTH \div 2 - 1, NORMAL_FIELD_START - 1>>)

\* Every marked cell emptied, every other cell as it was.
WithoutMarked(board) ==
    [grid |-> [y \in Rows |-> [x \in Cols |->
        IF Marked(board, <<x, y>>) THEN createEmptyPuyo ELSE CellAt(board, <<x, y>>)]]]

\* The scoring rule as the specification words it.
ChainBonusRule(c) ==
    IF c = 1 THEN 0 ELSE IF c \in 2 .. 3 THEN 8 * (c - 1) ELSE 32 * (c - 3)
ConnectionBonusRule(size) ==
    IF size = 4 THEN 0 ELSE IF size \in 5 .. 10 THEN size - 3 ELSE 10
ColorBonusRule(k) ==
    CASE k = 1 -> 0 [] k = 2 -> 3 [] k = 3 -> 6 [] k = 4 -> 12 [] k = 5 -> 24
RECURSIVE SumConnectionRule(_, _)
SumConnectionRule(sizes, i) ==
    IF i > Len(sizes) THEN 0
    ELSE ConnectionBonusRule(sizes[i]) + SumConnectionRule(sizes, i + 1)
ScoreRule(c, n, sizes, k) ==
    LET bonus == ChainBonusRule(c) + SumConnectionRule(sizes, 1) + ColorBonusRule(k)
    IN n * 10 * (IF bonus > 1 THEN bonus ELSE 1)

\* The two cells of a pair: the anchor and the cell next to it on the side
\* the rotation names.
Offset(rotation) ==
    CASE rotation = UP -> <<0, -1>>
      [] rotation = RIGHT -> <<1, 0>>
      [] rotation = DOWN -> <<0, 1>>
      [] rotation = LEFT -> <<-1, 0>>
Shift(c, d) == <<c[1] + d[1], c[2] + d[2]>>
AnchorCell(pair) == <<pair.position.x, pair.position.y>>
SecondCell(pair) == Shift(AnchorCell(pair), Offset(pair.rotation))
PairCells(pair) == {AnchorCell(pair), SecondCell(pair)}

\* A cell a puyo can go to: on the board and empty.
Free(board, c) == c \in AllCells /\ ~Occupied(board, c)
\* A cell of the board that holds a puyo.
Taken(board, c) == c \in AllCells /\ Occupied(board, c)

\* How many rows a pair can go straight down: the greatest k such that both
\* cells are free after each of the first k steps.
FallDepth(pair, board) ==
    LET clear(k) == \A j \in 1 .. k :
                       /\ Free(board, Shift(AnchorCell(pair), <<0, j>>))
                       /\ Free(board, Shift(SecondCell(pair), <<0, j>>))
    IN CHOOSE k \in 0 .. TotalHeight : clear(k) /\ ~clear(k + 1)

\* What the six player commands return on a snapshot.
CommandResults(g) ==
    {moveLeftInGame(g), moveRightInGame(g), rotateClockwiseInGame(g),
     rotateCounterClockwiseInGame(g), executeQuickTurnInGame(g), hardDrop(g)}

\* The step taken is one of the six player commands.
CommandStep ==
    \/ MoveLeft
    \/ MoveRight
    \/ RotateClockwise
    \/ RotateCounterClockwise
    \/ QuickTurn
    \/ HardDrop

(***************************************************************************)
(* The pair functions called on their own: a pair lying on the grid, its   *)
(* two cells empty, and a few occupied cells around it                     *)
(***************************************************************************)
MaxBlocks == 2

Block == createPuyo("green")
MainPuyo == createPuyo("red")
SecondPuyo == createPuyo("blue")

BoardWith(blocks) ==
    [grid |-> [y \in Rows |-> [x \in Cols |->
        IF <<x, y>> \in blocks THEN Block ELSE createEmptyPuyo]]]

Distance(c, d) ==
    (IF c[1] >= d[1] THEN c[1] - d[1] ELSE d[1] - c[1])
        + (IF c[2] >= d[2] THEN c[2] - d[2] ELSE d[2] - c[2])

\* The pairs lying on the grid.
GridPairs ==
    {pair \in {createPuyoPairAt(MainPuyo, SecondPuyo, x, y, r) :
                    x \in Cols, y \in Rows, r \in {UP, RIGHT, DOWN, LEFT}} :
        PairCells(pair) \subseteq AllCells}

\* The cells a move, a rotation, a wall kick or a quick turn of the pair can
\* look at, the pair's own cells left out.
NearCells(pair) ==
    {c \in AllCells \ PairCells(pair) : Distance(c, AnchorCell(pair)) <= 2}

\* The boards tried with a pair: at most MaxBlocks occupied cells near it.
BlockSets(pair) == {s \in SUBSET NearCells(pair) : Cardinality(s) <= MaxBlocks}

InitPair ==
    /\ cachedSequences = Null
    /\ game = createGame(Null, 0, CHOOSE d \in DefaultSeqs : TRUE)
    /\ result = "none"
    /\ script = <<>>
    /\ budget = 0
    /\ origin = "pair"
    /\ scoreArgs = NoScoreArgs
    /\ scoreOut = <<>>
    /\ \E pair \in GridPairs : \E blocks \in BlockSets(pair) :
          callArgs = [pair |-> pair, board |-> BoardWith(blocks)]
    /\ callOut = <<>>

\* The first call on the input: op names the function, r is what it returned.
Call(op, r) ==
    /\ callOut = <<>>
    /\ callOut' = <<[op |-> op, result |-> r]>>
    /\ UNCHANGED <<game, result, cachedSequences, script, budget, origin, scoreVars,
                   callArgs>>

MoveLeftCall == Call("moveLeft", moveLeft(callArgs.pair, callArgs.board))

MoveRightCall == Call("moveRight", moveRight(callArgs.pair, callArgs.board))

RotateClockwiseCall ==
    Call("rotateClockwise", rotateClockwise(callArgs.pair, callArgs.board))

RotateCounterClockwiseCall ==
    Call("rotateCounterClockwise", rotateCounterClockwise(callArgs.pair, callArgs.board))

ExecuteQuickTurnCall ==
    Call("executeQuickTurn", executeQuickTurn(callArgs.pair, callArgs.board))

\* rotateCounterClockwise called on the pair a rotateClockwise returned.
RotateBackCall ==
    /\ Len(callOut) = 1
    /\ callOut[1].op = "rotateClockwise"
    /\ callOut[1].result.ok
    /\ callOut' = Append(callOut,
                         [op |-> "rotateCounterClockwise",
                          result |-> rotateCounterClockwise(callOut[1].result.value,
                                                            callArgs.board)])
    /\ UNCHANGED <<game, result, cachedSequences, script, budget, origin, scoreVars,
                   callArgs>>

NextPair ==
    \/ MoveLeftCall
    \/ MoveRightCall
    \/ RotateClockwiseCall
    \/ RotateCounterClockwiseCall
    \/ ExecuteQuickTurnCall
    \/ RotateBackCall

SpecPair == InitPair /\ [][NextPair]_vars

(***************************************************************************)
(* placeOnBoard, getPuyoAt and setPuyoAt called on their own, with         *)
(* coordinates up to Margin cells outside the grid                         *)
(***************************************************************************)
Margin == 1

WideCols == (0 - Margin) .. (BOARD_WIDTH - 1 + Margin)
WideRows == (0 - Margin) .. (TotalHeight - 1 + Margin)

\* The boards tried with a coordinate: at most MaxBlocks occupied cells among
\* the cell and its neighbours on the grid.
BlockSetsAt(c) ==
    {s \in SUBSET {d \in AllCells : Distance(c, d) <= 1} : Cardinality(s) <= MaxBlocks}

InitPlace ==
    /\ cachedSequences = Null
    /\ game = createGame(Null, 0, CHOOSE d \in DefaultSeqs : TRUE)
    /\ result = "none"
    /\ script = <<>>
    /\ budget = 0
    /\ origin = "place"
    /\ scoreArgs = NoScoreArgs
    /\ scoreOut = <<>>
    /\ \E x \in WideCols, y \in WideRows, r \in {UP, RIGHT, DOWN, LEFT} :
          \E blocks \in BlockSetsAt(<<x, y>>) :
             callArgs = [pair |-> createPuyoPairAt(MainPuyo, SecondPuyo, x, y, r),
                         board |-> BoardWith(blocks)]
    /\ callOut = <<>>

PlaceOnBoardCall ==
    Call("placeOnBoard", placeOnBoard(callArgs.pair, callArgs.board))

NextPlace == PlaceOnBoardCall

SpecPlace == InitPlace /\ [][NextPlace]_vars

InitBoard ==
    /\ cachedSequences = Null
    /\ game = createGame(Null, 0, CHOOSE d \in DefaultSeqs : TRUE)
    /\ result = "none"
    /\ script = <<>>
    /\ budget = 0
    /\ origin = "board"
    /\ scoreArgs = NoScoreArgs
    /\ scoreOut = <<>>
    /\ \E x \in WideCols, y \in WideRows, puyo \in {MainPuyo, Block, createEmptyPuyo} :
          \E blocks \in BlockSetsAt(<<x, y>>) :
             callArgs = [board |-> BoardWith(blocks), x |-> x, y |-> y, puyo |-> puyo]
    /\ callOut = <<>>

GetPuyoAtCall ==
    Call("getPuyoAt", getPuyoAt(callArgs.board, callArgs.x, callArgs.y))

SetPuyoAtCall ==
    Call("setPuyoAt", setPuyoAt(callArgs.board, callArgs.x, callArgs.y, callArgs.puyo))

NextBoard ==
    \/ GetPuyoAtCall
    \/ SetPuyoAtCall

SpecBoard == InitBoard /\ [][NextBoard]_vars

\* --- calls of applyGravity, each on the board the call before returned ---

MaxGravityCalls == 13

\* The rows of a column that may hold a puyo in an input board, and the
\* puyo a row holds (its colour tells the rows apart).
GravityRows == {CRANE_ROW, GHOST_ROW, 2, 11, 12, 13}
GravityPuyo(y) ==
    createPuyo(CASE y = CRANE_ROW -> "red" [] y = GHOST_ROW -> "green"
                 [] y = 2 -> "blue" [] y = 11 -> "yellow"
                 [] y = 12 -> "purple" [] OTHER -> "red")

\* The board with the rows `left` of column 0 and the rows `right` of
\* column 5 occupied.
GravityBoard(left, right) ==
    [grid |-> [y \in Rows |-> [x \in Cols |->
        IF (x = 0 /\ y \in left) \/ (x = BOARD_WIDTH - 1 /\ y \in right)
        THEN GravityPuyo(y) ELSE createEmptyPuyo]]]

InitGravity ==
    /\ cachedSequences = Null
    /\ game = createGame(Null, 0, CHOOSE d \in DefaultSeqs : TRUE)
    /\ result = "none"
    /\ script = <<>>
    /\ budget = 0
    /\ origin = "gravity"
    /\ scoreArgs = NoScoreArgs
    /\ scoreOut = <<>>
    /\ \E left \in SUBSET GravityRows, right \in SUBSET GravityRows :
          callArgs = [board |-> GravityBoard(left, right)]
    /\ callOut = <<>>

\* The n-th call takes the board the call before returned (the input board
\* for the first call); callArgs keeps the board the latest call was given.
ApplyGravityCall ==
    LET n == IF callOut = <<>> THEN 0 ELSE callOut[1].n
        board == IF callOut = <<>> THEN callArgs.board ELSE callOut[1].result.board
    IN /\ origin = "gravity"
       /\ n < MaxGravityCalls
       /\ callArgs' = [board |-> board]
       /\ callOut' = <<[op |-> "applyGravity", result |-> applyGravity(board),
                        n |-> n + 1]>>
       /\ UNCHANGED <<game, result, cachedSequences, script, budget, origin, scoreVars>>

NextGravity == ApplyGravityCall

SpecGravity == InitGravity /\ [][NextGravity]_vars


\* --- calls of createPuyoSeq before and after the table is loaded ---

MaxSeqCalls == 2

\* Two lines of the sequence file: the lines the tests expect for the seeds
\* 0 and 10.
seed_0 ==
    <<"r", "r", "p", "r", "p", "y", "p", "y", "r", "b", "b", "b", "p", "b", "b", "p",
       "r", "r", "r", "y", "b", "b", "y", "p", "p", "b", "y", "y", "r", "p", "p", "y",
       "b", "y", "b", "r", "b", "b", "b", "p", "p", "p", "p", "b", "y", "y", "p", "y",
       "b", "p", "p", "y", "y", "p", "b", "y", "r", "b", "y", "y", "y", "p", "p", "p",
       "p", "b", "p", "p", "p", "y", "r", "y", "y", "r", "p", "y", "y", "b", "p", "b",
       "r", "y", "r", "b", "b", "r", "p", "y", "b", "r", "r", "b", "r", "r", "b", "b",
       "p", "y", "p", "y", "r", "r", "y", "r", "r", "y", "b", "r", "b", "p", "b", "b",
       "y", "b", "r", "r", "p", "p", "p", "y", "r", "p", "r", "r", "r", "y", "r", "r",
       "b", "y", "b", "r", "b", "b", "r", "b", "r", "y", "b", "p", "r", "p", "y", "p",
       "p", "y", "b", "y", "r", "p", "p", "r", "p", "b", "b", "y", "y", "b", "b", "y",
       "y", "b", "r", "p", "r", "b", "y", "b", "r", "y", "r", "r", "b", "r", "y", "b",
       "y", "p", "p", "b", "b", "b", "p", "y", "y", "b", "p", "r", "p", "y", "y", "r",
       "r", "y", "p", "p", "y", "r", "r", "b", "p", "p", "y", "b", "y", "y", "y", "p",
       "p", "r", "p", "r", "y", "r", "p", "b", "p", "b", "p", "b", "y", "r", "p", "y",
       "p", "r", "y", "b", "r", "y", "b", "r", "r", "b", "p", "p", "y", "r", "b", "y",
       "y", "p", "r", "y", "r", "b", "b", "p", "r", "r", "b", "p", "r", "p", "r", "b">>

seed_10 ==
    <<"y", "b", "p", "y", "y", "y", "p", "p", "y", "g", "p", "g", "g", "y", "y", "g",
       "b", "y", "g", "b", "p", "p", "y", "g", "p", "y", "g", "g", "y", "g", "b", "g",
       "y", "g", "g", "g", "p", "b", "b", "g", "b", "g", "p", "g", "g", "g", "b", "p",
       "p", "p", "y", "b", "g", "y", "p", "g", "p", "y", "g", "g", "g", "b", "p", "p",
       "y", "y", "b", "g", "b", "p", "b", "b", "y", "y", "b", "p", "p", "g", "g", "b",
       "y", "b", "b", "b", "y", "y", "p", "g", "p", "p", "b", "g", "b", "b", "y", "p",
       "p", "b", "b", "y", "b", "y", "b", "y", "y", "g", "g", "b", "b", "y", "y", "b",
       "p", "p", "p", "p", "y", "g", "b", "g", "y", "b", "p", "p", "b", "b", "b", "p",
       "b", "y", "g", "p", "b", "b", "p", "y", "p", "y", "y", "p", "y", "b", "p", "y",
       "b", "p", "y", "y", "y", "p", "y", "y", "g", "p", "g", "p", "b", "g", "p", "g",
       "y", "p", "y", "y", "y", "p", "y", "p", "y", "g", "y", "g", "y", "g", "p", "b",
       "p", "b", "p", "b", "b", "g", "g", "g", "b", "p", "b", "b", "g", "b", "y", "b",
       "g", "p", "y", "p", "b", "g", "p", "b", "p", "b", "b", "g", "y", "p", "b", "y",
       "y", "g", "y", "g", "y", "g", "b", "g", "y", "p", "y", "g", "p", "g", "g", "y",
       "g", "g", "g", "g", "g", "g", "g", "p", "b", "b", "p", "p", "y", "p", "p", "g",
       "b", "b", "g", "b", "b", "b", "p", "y", "y", "y", "p", "b", "g", "y", "p", "b">>

EsportsLines == <<seed_0, seed_10>>

InitSeq ==
    /\ cachedSequences = Null
    /\ game = createGame(Null, 0, CHOOSE d \in DefaultSeqs : TRUE)
    /\ result = "none"
    /\ script = <<>>
    /\ budget = 0
    /\ origin = "seq"
    /\ scoreArgs = NoScoreArgs
    /\ scoreOut = <<>>
    /\ callArgs = NoCallArgs
    /\ callOut = <<>>

\* loadSequences run again although the table is cached.
LoadSequencesAgain ==
    /\ origin = "seq"
    /\ cachedSequences' \in {EsportsLines, FallbackLines}
    /\ UNCHANGED <<game, result, script, budget, origin, scoreVars, callVars>>

\* loadSequences completes: the lines of the file, or the fallback when
\* fetching fails; a table that is cached is returned as it is.
LoadSequencesCall ==
    /\ origin = "seq"
    /\ cachedSequences = Null
    /\ cachedSequences' \in {EsportsLines, FallbackLines}
    /\ UNCHANGED <<game, result, script, budget, origin, scoreVars, callVars>>

\* A call createPuyoSeq(seed): result is what the Result-returning revision
\* returns, value what the revision of puyoSeq.ts returns; loaded tells
\* whether the table was cached when the call was made.
CreatePuyoSeqCall ==
    /\ origin = "seq"
    /\ Len(callOut) < MaxSeqCalls
    /\ \E seed \in Seeds :
          callOut' = Append(callOut,
                       [op |-> "createPuyoSeq", seed |-> seed,
                        loaded |-> cachedSequences # Null,
                        result |-> createPuyoSeq(cachedSequences, seed),
                        value |-> createPuyoSeqOrDefault(cachedSequences, seed)])
    /\ UNCHANGED <<game, result, cachedSequences, script, budget, origin, scoreVars,
                   callArgs>>

NextSeq ==
    \/ LoadSequencesCall
    \/ CreatePuyoSeqCall

SpecSeq == InitSeq /\ [][NextSeq]_vars


\* --- games started by the controller and played by dropping every pair
\* --- where it spawns; starts and spawns counted

MaxStarts == 2
MaxSpawns == 7

\* callOut is empty until startGame is first called; then it holds the seed
\* of the latest call, the state the game was in at that call, whether a
\* retry timer is pending, whether the call was made by the timer, the
\* number of starts that succeeded and the
\* number n of spawns since the latest of them (the pair that startGame
\* spawns is pair 0).
InitSpawn ==
    /\ cachedSequences = Null
    /\ game \in {createGame(Null, 0, d) : d \in DefaultSeqs}
    /\ result = "none"
    /\ script = <<>>
    /\ budget = 0
    /\ origin = "spawn"
    /\ scoreArgs = NoScoreArgs
    /\ scoreOut = <<>>
    /\ callArgs = NoCallArgs
    /\ callOut = <<>>

Pending == callOut # <<>> /\ callOut[1].pending
Starts == IF callOut = <<>> THEN 0 ELSE callOut[1].starts

\* loadSequences, started by the constructor's createGame, completes.
SpawnLoad ==
    /\ origin = "spawn"
    /\ cachedSequences = Null
    /\ cachedSequences' \in {FileLines, FallbackLines}
    /\ UNCHANGED <<game, result, script, budget, origin, scoreVars, callVars>>

\* The retry timer forgotten when its call of startGame fails again.
StartGameCallNoRetry(timer) ==
    \E seed \in Seeds :
       LET r == startGame(game, cachedSequences, seed) IN
       /\ game' = IF r.ok THEN r.value ELSE game
       /\ result' = IF r.ok THEN "ok" ELSE r.error
       /\ callOut' = <<[op |-> "startGame", seed |-> seed, from |-> game.state,
                        timer |-> timer,
                        pending |-> IF r.ok \/ timer THEN FALSE ELSE TRUE,
                        starts |-> IF r.ok THEN Starts + 1 ELSE Starts,
                        n |-> IF r.ok \/ callOut = <<>> THEN 0 ELSE callOut[1].n]>>
       /\ UNCHANGED <<cachedSequences, script, budget, origin, scoreVars, callArgs>>

\* GameController.startGame, called by a start request (timer = FALSE) or by
\* the retry timer (timer = TRUE): the seed is random; on ok the new game
\* replaces the old one, on PuyoSeqNotLoaded the game stays and a retry
\* timer is set. A timer set earlier stays pending until it fires.
StartGameCall(timer) ==
    \E seed \in Seeds :
       LET r == startGame(game, cachedSequences, seed) IN
       /\ game' = IF r.ok THEN r.value ELSE game
       /\ result' = IF r.ok THEN "ok" ELSE r.error
       /\ callOut' = <<[op |-> "startGame", seed |-> seed, from |-> game.state,
                        timer |-> timer,
                        pending |-> IF r.ok THEN Pending /\ ~timer ELSE TRUE,
                        starts |-> IF r.ok THEN Starts + 1 ELSE Starts,
                        n |-> IF r.ok \/ callOut = <<>> THEN 0 ELSE callOut[1].n]>>
       /\ UNCHANGED <<cachedSequences, script, budget, origin, scoreVars, callArgs>>

\* A start request: the page has loaded or the restart key was pressed.
StartRequest ==
    /\ origin = "spawn"
    /\ Starts < MaxStarts
    /\ StartGameCall(FALSE)

\* The retry timer fires 500 ms after startGame failed.
RetryTimer ==
    /\ origin = "spawn"
    /\ Pending
    /\ StartGameCall(TRUE)

\* The hard-drop key while a pair is falling.
SpawnDrop ==
    /\ origin = "spawn"
    /\ game.state = "PLAYING"
    /\ callOut[1].n < MaxSpawns
    /\ LET r == hardDrop(game) IN
       /\ game' = IF r.ok THEN r.value ELSE game
       /\ result' = IF r.ok THEN "ok" ELSE r.error
    /\ UNCHANGED <<cachedSequences, script, budget, origin, scoreVars, callVars>>

\* One frame of the game loop, which runs once a game was started; a frame
\* that gives the game a current pair is a spawn.
SpawnTick ==
    /\ origin = "spawn"
    /\ Starts > 0
    /\ game.state # "PLAYING"
    /\ game' = updateGame(game)
    /\ result' = "none"
    /\ callOut' = IF game.currentPair = Null /\ updateGame(game).currentPair # Null
                  THEN <<[callOut[1] EXCEPT !.n = @ + 1]>>
                  ELSE callOut
    /\ UNCHANGED <<cachedSequences, script, budget, origin, scoreVars, callArgs>>

NextSpawn ==
    \/ SpawnLoad
    \/ StartRequest
    \/ RetryTimer
    \/ SpawnDrop
    \/ SpawnTick

SpecSpawn == InitSpawn /\ [][NextSpawn]_vars

\* The loader finishes, and a pending retry timer fires.
SpawnLoadFair == []<>(cachedSequences # Null) \/ []<><<SpawnLoad>>_vars
RetryTimerFair == []<>(~Pending) \/ []<><<RetryTimer>>_vars

SpecSpawnFair == SpecSpawn /\ SpawnLoadFair /\ RetryTimerFair


\* --- two games started with the same seed and given the same inputs ---

TwinDrops == 2

\* game is the first game and callArgs.game the second. Before the two are
\* started together the second is played alone, by dropping its pairs where
\* they spawn; callOut then holds whether the two snapshots differed when
\* they were started together.
InitTwin ==
    /\ cachedSequences \in {FileLines, FallbackLines}
    /\ game \in {createGame(Null, 0, d) : d \in DefaultSeqs}
    /\ result = "none"
    /\ script = <<>>
    /\ budget = 0
    /\ origin = "twin"
    /\ scoreArgs = NoScoreArgs
    /\ scoreOut = <<>>
    /\ callArgs \in {[game |-> createGame(Null, 0, d)] : d \in DefaultSeqs}
    /\ callOut = <<>>

\* A handler assigns this.game only when the operation succeeded.
AssignedGame(r, g) == IF r.ok THEN r.value ELSE g

\* The value a command's handler leaves in this.game.
AfterCommand(cmd, g) ==
    AssignedGame(CASE cmd = "moveLeft" -> moveLeftInGame(g)
                   [] cmd = "moveRight" -> moveRightInGame(g)
                   [] cmd = "rotateClockwise" -> rotateClockwiseInGame(g)
                   [] cmd = "rotateCounterClockwise" -> rotateCounterClockwiseInGame(g)
                   [] cmd = "quickTurn" -> executeQuickTurnInGame(g)
                   [] OTHER -> hardDrop(g),
                 g)

\* The second game alone: started with any seed, its pair dropped, a frame.
EarlierStart ==
    /\ origin = "twin"
    /\ callOut = <<>>
    /\ callArgs.game.state \in {"IDLE", "GAME_OVER"}
    /\ \E seed \in Seeds :
          callArgs' = [game |-> startGame(callArgs.game, cachedSequences, seed).value]
    /\ UNCHANGED <<game, result, cachedSequences, script, budget, origin, scoreVars,
                   callOut>>

EarlierDrop ==
    /\ origin = "twin"
    /\ callOut = <<>>
    /\ callArgs.game.state = "PLAYING"
    /\ callArgs.game.moveCount <= MaxSpawns
    /\ callArgs' = [game |-> AssignedGame(hardDrop(callArgs.game), callArgs.game)]
    /\ UNCHANGED <<game, result, cachedSequences, script, budget, origin, scoreVars,
                   callOut>>

EarlierTick ==
    /\ origin = "twin"
    /\ callOut = <<>>
    /\ callArgs.game.state \in {"DROPPING", "CHECKING_CHAINS", "FLASHING_PUYOS"}
    /\ callArgs' = [game |-> updateGame(callArgs.game)]
    /\ UNCHANGED <<game, result, cachedSequences, script, budget, origin, scoreVars,
                   callOut>>

\* Both games are started with the same explicit seed.
TwinStart ==
    /\ origin = "twin"
    /\ callOut = <<>>
    /\ \E seed \in Seeds :
          /\ game' = startGame(game, cachedSequences, seed).value
          /\ callArgs' = [game |-> startGame(callArgs.game, cachedSequences, seed).value]
    /\ result' = "ok"
    /\ budget' = TwinDrops
    /\ callOut' = <<[op |-> "startGame", differed |-> game # callArgs.game]>>
    /\ UNCHANGED <<cachedSequences, script, origin, scoreVars>>

\* Both games are given the same command; pairs are steered and dropped as
\* long as the budget of drops lasts.
TwinCommand ==
    /\ origin = "twin"
    /\ callOut # <<>>
    /\ \E cmd \in Commands :
          /\ game.state = "PLAYING" => budget > 0
          /\ game' = AfterCommand(cmd, game)
          /\ callArgs' = [game |-> AfterCommand(cmd, callArgs.game)]
          /\ budget' = IF cmd = "hardDrop" /\ game.state = "PLAYING"
                       THEN budget - 1 ELSE budget
    /\ result' = "none"
    /\ UNCHANGED <<cachedSequences, script, origin, scoreVars, callOut>>

\* Both games are given a frame.
TwinTick ==
    /\ origin = "twin"
    /\ callOut # <<>>
    /\ game' = updateGame(game)
    /\ callArgs' = [game |-> updateGame(callArgs.game)]
    /\ result' = "none"
    /\ UNCHANGED <<cachedSequences, script, budget, origin, scoreVars, callOut>>

NextTwin ==
    \/ EarlierStart
    \/ EarlierDrop
    \/ EarlierTick
    \/ TwinStart
    \/ TwinCommand
    \/ TwinTick

SpecTwin == InitTwin /\ [][NextTwin]_vars


\* --- a pair steered and moved down row by row with moveDownInGame ---

\* The heights of the stacks in columns 1, 2 and 3.
DownHeights == {0, 2, 5, 11}

DownSnapshots ==
    LET game0 == startGame(createGame(FileLines, 0, CHOOSE d \in DefaultSeqs : TRUE),
                           FileLines, 0).value
    IN {spawnNextPair([game0 EXCEPT !.board = SteerBoard(h1, h2, h3),
                                    !.currentPair = Null]) :
            h1 \in DownHeights, h2 \in DownHeights, h3 \in DownHeights}

InitDown ==
    /\ cachedSequences = FileLines
    /\ origin = "down"
    /\ game \in DownSnapshots
    /\ result = "none"
    /\ script = <<>>
    /\ budget = SteerDrops
    /\ scoreArgs = NoScoreArgs
    /\ scoreOut = <<>>
    /\ callArgs = NoCallArgs
    /\ callOut = <<>>

\* A call of moveDownInGame on the current snapshot.
MoveDown ==
    /\ PlayerMay("moveDown")
    /\ Handle("moveDown", moveDownInGame(game))

NextDown ==
    \/ MoveLeft
    \/ MoveRight
    \/ RotateClockwise
    \/ RotateCounterClockwise
    \/ QuickTurn
    \/ MoveDown

SpecDown == InitDown /\ [][NextDown]_vars


\* --- the sequence loader: calls of createPuyoSeq and createPuyoSeqAsync
\* --- while the file is being fetched, and the fetch settling

MaxLoadCalls == 4

\* The module-level state of the loader next to cachedSequences: the flag,
\* the promise of the load last started (the number of that load, or Null),
\* the number of fetch calls made, and the loads whose async body is
\* suspended, each at the await it waits on.
NoLoader ==
    [isLoadingSequence |-> FALSE, loadingPromise |-> Null, fetches |-> 0,
     inflight |-> <<>>]

\* A variant of loadSequences without the test for a load in flight; the
\* property of C32 tells it from the original.
loadSequencesUnshared(ls, cached) ==
    IF cached # Null THEN ls
    ELSE [ls EXCEPT !.isLoadingSequence = TRUE,
                    !.loadingPromise = <<ls.fetches + 1>>,
                    !.fetches = ls.fetches + 1,
                    !.inflight = Append(ls.inflight,
                                        [load |-> ls.fetches + 1, pc |-> "fetch"])]

\* loadSequences up to its return: the cached table, the promise of the
\* load in flight, or a new load whose body runs up to `await fetch(...)`.
loadSequences(ls, cached) ==
    IF cached # Null THEN ls
    ELSE IF ls.isLoadingSequence /\ ls.loadingPromise # Null THEN ls
    ELSE [ls EXCEPT !.isLoadingSequence = TRUE,
                    !.loadingPromise = <<ls.fetches + 1>>,
                    !.fetches = ls.fetches + 1,
                    !.inflight = Append(ls.inflight,
                                        [load |-> ls.fetches + 1, pc |-> "fetch"])]

\* The sequence without its i-th element.
Without(s, i) == [k \in 1 .. Len(s) - 1 |-> IF k < i THEN s[k] ELSE s[k + 1]]

InitLoad ==
    /\ cachedSequences = Null
    /\ game \in {createGame(Null, 0, d) : d \in DefaultSeqs}
    /\ result = "none"
    /\ script = <<>>
    /\ budget = 0
    /\ origin = "load"
    /\ scoreArgs = NoScoreArgs
    /\ scoreOut = <<>>
    /\ callArgs = NoLoader
    /\ callOut = <<>>

\* What a call leaves in the log: whether a load was in flight when it was
\* made, whether the table was cached, and the loader before and after.
LoadCall(op, before, after) ==
    /\ callArgs' = after
    /\ callOut' = Append(callOut, [op |-> op,
                                   cached |-> cachedSequences # Null,
                                   inflight |-> Len(before.inflight),
                                   fetched |-> after.fetches - before.fetches])
    /\ UNCHANGED <<game, result, cachedSequences, script, budget, origin, scoreVars>>

\* createPuyoSeq: calls loadSequences unless the flag says a load is running.
CreatePuyoSeqSync ==
    /\ origin = "load"
    /\ Len(callOut) < MaxLoadCalls
    /\ LoadCall("createPuyoSeq", callArgs,
                IF ~callArgs.isLoadingSequence
                THEN loadSequences(callArgs, cachedSequences)
                ELSE callArgs)

\* createPuyoSeqAsync: awaits loadSequences().
CreatePuyoSeqAsync ==
    /\ origin = "load"
    /\ Len(callOut) < MaxLoadCalls
    /\ LoadCall("createPuyoSeqAsync", callArgs, loadSequences(callArgs, cachedSequences))

\* The catch and finally blocks of a load's body.
LoadFailed(i) ==
    /\ cachedSequences' = FallbackLines
    /\ callArgs' = [callArgs EXCEPT !.isLoadingSequence = FALSE,
                                    !.inflight = Without(callArgs.inflight, i)]

\* `await fetch(...)` settles: a response that is ok, or a response that is
\* not ok or a rejection, which both end in the catch block.
FetchSettles ==
    /\ origin = "load"
    /\ \E i \in 1 .. Len(callArgs.inflight) :
          /\ callArgs.inflight[i].pc = "fetch"
          /\ \/ /\ callArgs' = [callArgs EXCEPT !.inflight[i].pc = "text"]
                /\ UNCHANGED cachedSequences
             \/ LoadFailed(i)
    /\ UNCHANGED <<game, result, script, budget, origin, scoreVars, callOut>>

\* `await response.text()` settles: the lines of the file are cached, or the
\* body could not be read.
TextSettles ==
    /\ origin = "load"
    /\ \E i \in 1 .. Len(callArgs.inflight) :
          /\ callArgs.inflight[i].pc = "text"
          /\ \/ /\ cachedSequences' = FileLines
                /\ callArgs' = [callArgs EXCEPT !.isLoadingSequence = FALSE,
                                                !.inflight = Without(callArgs.inflight, i)]
             \/ LoadFailed(i)
    /\ UNCHANGED <<game, result, script, budget, origin, scoreVars, callOut>>

NextLoad ==
    \/ CreatePuyoSeqSync
    \/ CreatePuyoSeqAsync
    \/ FetchSettles
    \/ TextSettles

SpecLoad == InitLoad /\ [][NextLoad]_vars


\* --- the controller's undo and redo stacks -----------------------------

MAX_HISTORY_SIZE == 255

\* gameHistory, redoHistory, canUndo and canRedo of a new controller.
NoHistory ==
    [gameHistory |-> <<>>, redoHistory |-> <<>>, canUndo |-> FALSE, canRedo |-> FALSE]

Last(s) == s[Len(s)]
Front(s) == SubSeq(s, 1, Len(s) - 1)

\* The states in which undo and redo refuse to act.
Busy == {"DROPPING", "CHECKING_CHAINS", "FLASHING_PUYOS", "GAME_OVER"}

\* A variant of saveGameState that never drops the oldest snapshot; the
\* property of C38 tells it from the original.
saveGameStateUnbounded(ctl, g) ==
    IF g.state = "PLAYING" /\ g.currentPair # Null
    THEN [gameHistory |-> Append(ctl.gameHistory, g),
          redoHistory |-> <<>>,
          canUndo |-> TRUE,
          canRedo |-> FALSE]
    ELSE ctl

\* saveGameState: the history fields it leaves.
saveGameState(ctl, g) ==
    IF g.state = "PLAYING" /\ g.currentPair # Null
    THEN LET pushed == Append(ctl.gameHistory, g)
         IN [gameHistory |-> IF Len(pushed) > MAX_HISTORY_SIZE THEN Tail(pushed)
                             ELSE pushed,
             redoHistory |-> <<>>,
             canUndo |-> TRUE,
             canRedo |-> FALSE]
    ELSE ctl

\* A variant of undo that forgets the game it replaces; the property of C33
\* tells it from the original.
undoWithoutRedo(ctl, g) ==
    IF Len(ctl.gameHistory) = 0 \/ g.state \in Busy
    THEN [returned |-> FALSE, game |-> g, ctl |-> ctl]
    ELSE [returned |-> TRUE,
          game |-> Last(ctl.gameHistory),
          ctl |-> [gameHistory |-> Front(ctl.gameHistory),
                   redoHistory |-> ctl.redoHistory,
                   canUndo |-> Len(ctl.gameHistory) - 1 > 0,
                   canRedo |-> TRUE]]

\* undo: what it returns, and the game and the history fields it leaves.
undo(ctl, g) ==
    IF Len(ctl.gameHistory) = 0 \/ g.state \in Busy
    THEN [returned |-> FALSE, game |-> g, ctl |-> ctl]
    ELSE [returned |-> TRUE,
          game |-> Last(ctl.gameHistory),
          ctl |-> [gameHistory |-> Front(ctl.gameHistory),
                   redoHistory |-> Append(ctl.redoHistory, g),
                   canUndo |-> Len(ctl.gameHistory) - 1 > 0,
                   canRedo |-> TRUE]]

\* A variant of redo that does not put the game it replaces back on
\* gameHistory; the property of C39 tells it from the original.
redoWithoutUndo(ctl, g) ==
    IF Len(ctl.redoHistory) = 0 \/ g.state \in Busy
    THEN [returned |-> FALSE, game |-> g, ctl |-> ctl]
    ELSE [returned |-> TRUE,
          game |-> Last(ctl.redoHistory),
          ctl |-> [gameHistory |-> ctl.gameHistory,
                   redoHistory |-> Front(ctl.redoHistory),
                   canUndo |-> TRUE,
                   canRedo |-> Len(ctl.redoHistory) - 1 > 0]]

\* redo: what it returns, and the game and the history fields it leaves.
redo(ctl, g) ==
    IF Len(ctl.redoHistory) = 0 \/ g.state \in Busy
    THEN [returned |-> FALSE, game |-> g, ctl |-> ctl]
    ELSE [returned |-> TRUE,
          game |-> Last(ctl.redoHistory),
          ctl |-> [gameHistory |-> Append(ctl.gameHistory, g),
                   redoHistory |-> Front(ctl.redoHistory),
                   canUndo |-> TRUE,
                   canRedo |-> Len(ctl.redoHistory) - 1 > 0]]

MaxUndoDrops == 1
MaxTurns == 2

\* callArgs holds the history fields of the controller. callOut holds the
\* last key handled and, for the drops of this game, what saveGameState
\* saved immediately before each: `made` for the drops that stand, oldest
\* first, with who pushed the history entry that stands for it ("save", or
\* "redo" after the drop was undone and redone), and `unmade` for the drops
\* undone and not redone; n counts the hard drops made after the opening.
NoDrops == [op |-> "none", returned |-> FALSE, made |-> <<>>, unmade |-> <<>>, n |-> 0]

InitUndo ==
    /\ cachedSequences = FileLines
    /\ game \in {createGame(FileLines, 0, d) : d \in DefaultSeqs}
    /\ result = "none"
    /\ script = <<>>
    /\ budget = 0
    /\ origin = "undo"
    /\ scoreArgs = NoScoreArgs
    /\ scoreOut = <<>>
    /\ callArgs = NoHistory
    /\ callOut = <<NoDrops>>

\* The openings of the games played: none, or pairs dropped where they
\* spawn: on line B until the next pair dropped ends the game, on line C
\* until the next pair dropped makes a group of four.
UndoOpenings(seed) == IF seed = 1 THEN {<<>>, ScriptB} ELSE {<<>>, ScriptC}

\* GameController.startGame: a started game begins with empty histories.
UndoStart ==
    /\ origin = "undo"
    /\ script = <<>>
    /\ \E seed \in {1, 2} :
          /\ game' = startGame(game, cachedSequences, seed).value
          /\ script' \in UndoOpenings(seed)
    /\ callArgs' = NoHistory
    /\ callOut' = <<[NoDrops EXCEPT !.op = "startGame", !.n = callOut[1].n]>>
    /\ budget' = MaxTurns
    /\ result' = "ok"
    /\ UNCHANGED <<cachedSequences, origin, scoreVars>>

\* The hard-drop key: saveGameState, then hardDrop.
UndoHardDrop ==
    /\ origin = "undo"
    /\ game.state = "PLAYING" /\ script = <<>> => callOut[1].n < MaxUndoDrops
    /\ callArgs' = saveGameState(callArgs, game)
    /\ game' = AssignedGame(hardDrop(game), game)
    /\ callOut' = <<IF game.state = "PLAYING" /\ game.currentPair # Null
                    THEN [op |-> "hardDrop", returned |-> FALSE,
                          made |-> Append(callOut[1].made, [saved |-> game, by |-> "save"]),
                          unmade |-> <<>>,
                          n |-> IF script = <<>> THEN callOut[1].n + 1 ELSE callOut[1].n]
                    ELSE [callOut[1] EXCEPT !.op = "hardDrop", !.returned = FALSE]>>
    /\ script' = IF game.state = "PLAYING" /\ script # <<>> THEN Tail(script) ELSE script
    /\ result' = "none"
    /\ UNCHANGED <<cachedSequences, budget, origin, scoreVars>>

\* A rotation key; nothing is saved for it. The player turns the pairs of a
\* game budget times at most.
UndoRotate ==
    /\ origin = "undo"
    /\ script = <<>>
    /\ game.state = "PLAYING" => budget > 0
    /\ \E cmd \in {"rotateClockwise", "rotateCounterClockwise"} :
          /\ game' = AfterCommand(cmd, game)
          /\ callOut' = <<[callOut[1] EXCEPT !.op = cmd, !.returned = FALSE]>>
    /\ budget' = IF game.state = "PLAYING" THEN budget - 1 ELSE budget
    /\ result' = "none"
    /\ UNCHANGED <<cachedSequences, script, origin, scoreVars, callArgs>>

\* The undo key.
UndoKey ==
    /\ origin = "undo"
    /\ script = <<>>
    /\ LET r == undo(callArgs, game) IN
       /\ game' = r.game
       /\ callArgs' = r.ctl
       /\ callOut' = <<IF r.returned
                       THEN [op |-> "undo", returned |-> TRUE,
                             made |-> Front(callOut[1].made),
                             unmade |-> Append(callOut[1].unmade, Last(callOut[1].made).saved),
                             n |-> callOut[1].n]
                       ELSE [callOut[1] EXCEPT !.op = "undo", !.returned = FALSE]>>
    /\ result' = "none"
    /\ UNCHANGED <<cachedSequences, script, budget, origin, scoreVars>>

\* The redo key.
RedoKey ==
    /\ origin = "undo"
    /\ script = <<>>
    /\ LET r == redo(callArgs, game) IN
       /\ game' = r.game
       /\ callArgs' = r.ctl
       /\ callOut' = <<IF r.returned
                       THEN [op |-> "redo", returned |-> TRUE,
                             made |-> Append(callOut[1].made,
                                             [saved |-> Last(callOut[1].unmade), by |-> "redo"]),
                             unmade |-> Front(callOut[1].unmade),
                             n |-> callOut[1].n]
                       ELSE [callOut[1] EXCEPT !.op = "redo", !.returned = FALSE]>>
    /\ result' = "none"
    /\ UNCHANGED <<cachedSequences, script, budget, origin, scoreVars>>

\* gameLoop: a frame.
UndoTick ==
    /\ origin = "undo"
    /\ game' = updateGame(game)
    /\ callOut' = <<[callOut[1] EXCEPT !.op = "updateGame", !.returned = FALSE]>>
    /\ result' = "none"
    /\ UNCHANGED <<cachedSequences, script, budget, origin, scoreVars, callArgs>>

NextUndo ==
    \/ UndoStart
    \/ UndoHardDrop
    \/ UndoRotate
    \/ UndoKey
    \/ RedoKey
    \/ UndoTick

SpecUndo == InitUndo /\ [][NextUndo]_vars


\* --- a long game: the history at its limit ------------------------------

\* The hard drops of the long game, and how many undone drops the player
\* lets stand at a time.
MaxLongDrops == 256
MaxRedoDepth == 2

\* The long game is played on line B: a red pair is dropped where it spawns,
\* a blue pair one column to the left, so that every second pair of a colour
\* clears that colour and the game never ends.
LongCommand(g) ==
    IF g.currentPair[1].mainPuyo.color = "blue"
       /\ g.currentPair[1].position.x = (BOARD_WIDTH \div 2) - 1
    THEN "moveLeft" ELSE "hardDrop"

\* The frames of the game loop after a hard drop, up to the next pair. (In
\* the three loops below a one-element set binds each intermediate value,
\* so that it is computed once.)
RECURSIVE FramesToNextPair(_)
FramesToNextPair(g) ==
    CHOOSE r \in {IF next.state \in {"PLAYING", "GAME_OVER"} THEN next
                  ELSE FramesToNextPair(next) : next \in {updateGame(g)}} : TRUE

\* One pair of the long game: the keys of LongCommand up to the hard drop
\* (saved by saveGameState), then the frames up to the next pair.
RECURSIVE LongPair(_)
LongPair(s) ==
    IF s.game.state = "PLAYING" /\ LongCommand(s.game) = "moveLeft"
    THEN CHOOSE r \in {LongPair([s EXCEPT !.game = moved])
                       : moved \in {AssignedGame(moveLeftInGame(s.game), s.game)}} : TRUE
    ELSE CHOOSE r \in {[ctl |-> saveGameState(s.ctl, s.game),
                        game |-> FramesToNextPair(dropped)]
                       : dropped \in {AssignedGame(hardDrop(s.game), s.game)}} : TRUE

\* The controller after n pairs of the long game.
RECURSIVE LongPairs(_, _)
LongPairs(s, n) ==
    IF n = 0 THEN s
    ELSE IF n = 1 THEN LongPair(s)
    ELSE CHOOSE r \in {LongPairs(half, n - n \div 2)
                       : half \in {LongPairs(s, n \div 2)}} : TRUE

\* The long game is watched from its pair number MaxLongOpening + 1 on.
MaxLongOpening == 254
LongOpened ==
    LongPairs([ctl |-> NoHistory,
               game |-> startGame(createGame(FileLines, 1, [seq |-> <<>>]), FileLines, 1).value],
              MaxLongOpening)

\* callArgs holds the history fields of the controller.
InitLong ==
    /\ cachedSequences = FileLines
    /\ game = LongOpened.game
    /\ result = "none"
    /\ script = <<>>
    /\ budget = 0
    /\ origin = "long"
    /\ scoreArgs = NoScoreArgs
    /\ scoreOut = <<>>
    /\ callArgs = LongOpened.ctl
    /\ callOut = <<>>

\* GameController.startGame: a started game begins with empty histories.
LongStart ==
    /\ origin = "long"
    /\ game' = startGame(game, cachedSequences, 1).value
    /\ callArgs' = NoHistory
    /\ result' = "ok"
    /\ UNCHANGED <<cachedSequences, script, budget, origin, scoreVars, callOut>>

\* The left key, pressed for the pairs to be moved.
LongMoveLeft ==
    /\ origin = "long"
    /\ game.state = "PLAYING"
    /\ LongCommand(game) = "moveLeft"
    /\ game' = AssignedGame(moveLeftInGame(game), game)
    /\ result' = "none"
    /\ UNCHANGED <<cachedSequences, script, budget, origin, scoreVars, callVars>>

\* The hard-drop key: saveGameState, then hardDrop.
LongHardDrop ==
    /\ origin = "long"
    /\ game.state = "PLAYING"
    /\ LongCommand(game) = "hardDrop"
    /\ game.moveCount <= MaxLongDrops + 1
    /\ callArgs' = saveGameState(callArgs, game)
    /\ game' = AssignedGame(hardDrop(game), game)
    /\ result' = "none"
    /\ UNCHANGED <<cachedSequences, script, budget, origin, scoreVars, callOut>>

\* The undo key.
LongUndo ==
    /\ origin = "long"
    /\ game.state = "PLAYING" => Len(callArgs.redoHistory) < MaxRedoDepth
    /\ game' = undo(callArgs, game).game
    /\ callArgs' = undo(callArgs, game).ctl
    /\ result' = "none"
    /\ UNCHANGED <<cachedSequences, script, budget, origin, scoreVars, callOut>>

\* The redo key.
LongRedo ==
    /\ origin = "long"
    /\ game' = redo(callArgs, game).game
    /\ callArgs' = redo(callArgs, game).ctl
    /\ result' = "none"
    /\ UNCHANGED <<cachedSequences, script, budget, origin, scoreVars, callOut>>

\* gameLoop: a frame.
LongTick ==
    /\ origin = "long"
    /\ game' = updateGame(game)
    /\ result' = "none"
    /\ UNCHANGED <<cachedSequences, script, budget, origin, scoreVars, callVars>>

NextLong ==
    \/ LongStart
    \/ LongMoveLeft
    \/ LongHardDrop
    \/ LongUndo
    \/ LongRedo
    \/ LongTick

SpecLong == InitLong /\ [][NextLong]_vars


\* --- the controller's game loops -----------------------------------------

\* The animation-frame callbacks and the retry timers pending in a new
\* controller: none.
NoLoops == [loops |-> 0, timers |-> 0]

\* A variant of gameLoop that requests two animation frames; the property
\* of C40 tells it from the original.
gameLoopTwice(g) ==
    [game |-> updateGame(g),
     again |-> IF updateGame(g).state # "GAME_OVER" THEN 2 ELSE 0]

\* gameLoop: one updateGame, and one more animation frame requested unless
\* the game is over.
gameLoop(g) ==
    [game |-> updateGame(g),
     again |-> IF updateGame(g).state # "GAME_OVER" THEN 1 ELSE 0]

\* An animation frame: the n callbacks registered for it run one after the
\* other; `again` counts the callbacks they register for the next frame.
RECURSIVE RunCallbacks(_, _)
RunCallbacks(g, n) ==
    IF n = 0 THEN [game |-> g, again |-> 0]
    ELSE [game |-> RunCallbacks(gameLoop(g).game, n - 1).game,
          again |-> gameLoop(g).again + RunCallbacks(gameLoop(g).game, n - 1).again]

\* GameController.startGame: a started game requests an animation frame for
\* gameLoop; while the sequences are not loaded it sets a timer to try again.
controllerStartGame(ctl, g, cached, seed) ==
    IF startGame(g, cached, seed).ok
    THEN [game |-> startGame(g, cached, seed).value,
          ctl |-> [ctl EXCEPT !.loops = @ + 1]]
    ELSE [game |-> g,
          ctl |-> IF startGame(g, cached, seed).error = "PuyoSeqNotLoaded"
                  THEN [ctl EXCEPT !.timers = @ + 1] ELSE ctl]

\* How many callbacks and timers may be pending together, and how many
\* pairs a game lasts.
MaxLoops == 2
MaxLoopDrops == 5

\* callArgs holds the pending callbacks and timers. callOut holds the last
\* step, how often the last animation frame applied updateGame, and whether
\* a start request has succeeded while a loop was active (since the last
\* time no loop was active).
LoopOut(op, applied, overlapped) ==
    <<[op |-> op, applied |-> applied, overlapped |-> overlapped]>>

InitLoop ==
    /\ cachedSequences = Null
    /\ game \in {createGame(Null, 0, d) : d \in DefaultSeqs}
    /\ result = "none"
    /\ script = <<>>
    /\ budget = 0
    /\ origin = "loop"
    /\ scoreArgs = NoScoreArgs
    /\ scoreOut = <<>>
    /\ callArgs = NoLoops
    /\ callOut = LoopOut("none", 0, FALSE)

\* loadSequences completes.
LoopLoad ==
    /\ origin = "loop"
    /\ cachedSequences = Null
    /\ cachedSequences' = FileLines
    /\ UNCHANGED <<game, result, script, budget, origin, scoreVars, callVars>>

\* What a call of GameController.startGame leaves, whoever makes it.
LoopStarts(op, ctl) ==
    \E seed \in {0, 1} :
        /\ game' = controllerStartGame(ctl, game, cachedSequences, seed).game
        /\ callArgs' = controllerStartGame(ctl, game, cachedSequences, seed).ctl
        /\ callOut' = LoopOut(op, callOut[1].applied,
                              \/ callOut[1].overlapped
                              \/ /\ startGame(game, cachedSequences, seed).ok
                                 /\ callArgs.loops > 0)
        /\ result' = IF startGame(game, cachedSequences, seed).ok THEN "ok"
                     ELSE startGame(game, cachedSequences, seed).error
        /\ UNCHANGED <<cachedSequences, script, budget, origin, scoreVars>>

\* The start button is clicked or the Enter key pressed, at any moment.
StartPressed ==
    /\ origin = "loop"
    /\ callArgs.loops + callArgs.timers < MaxLoops
    /\ LoopStarts("start", callArgs)

\* A retry timer fires.
RetryFires ==
    /\ origin = "loop"
    /\ callArgs.timers > 0
    /\ LoopStarts("retry", [callArgs EXCEPT !.timers = @ - 1])

\* The hard-drop key.
LoopHardDrop ==
    /\ origin = "loop"
    /\ game.state = "PLAYING"
    /\ game.moveCount <= MaxLoopDrops + 1
    /\ game' = AssignedGame(hardDrop(game), game)
    /\ callOut' = LoopOut("hardDrop", callOut[1].applied, callOut[1].overlapped)
    /\ result' = "none"
    /\ UNCHANGED <<cachedSequences, script, budget, origin, scoreVars, callArgs>>

\* The browser runs an animation frame.
AnimationFrame ==
    /\ origin = "loop"
    /\ callArgs.loops > 0
    /\ game' = RunCallbacks(game, callArgs.loops).game
    /\ callArgs' = [callArgs EXCEPT !.loops = RunCallbacks(game, callArgs.loops).again]
    /\ callOut' = LoopOut("frame", callArgs.loops,
                          callOut[1].overlapped
                          /\ RunCallbacks(game, callArgs.loops).again > 0)
    /\ result' = "none"
    /\ UNCHANGED <<cachedSequences, script, budget, origin, scoreVars>>

NextLoop ==
    \/ LoopLoad
    \/ StartPressed
    \/ RetryFires
    \/ LoopHardDrop
    \/ AnimationFrame

SpecLoop == InitLoop /\ [][NextLoop]_vars


\* The cells in which two boards differ.
Differing(a, b) == {c \in AllCells : CellAt(a, c) # CellAt(b, c)}

\* The board with the two puyos of the pair written on its two cells.
WithPair(board, pair) ==
    [grid |-> [y \in Rows |-> [x \in Cols |->
        IF <<x, y>> = AnchorCell(pair) THEN pair.mainPuyo
        ELSE IF <<x, y>> = SecondCell(pair) THEN pair.secondPuyo
        ELSE CellAt(board, <<x, y>>)]]]

\* The first call made on the input was a call of op.
Called(op) == callOut # <<>> /\ callOut[1].op = op

\* The pair moved so that its anchor is on cell c, turned to rotation r.
PairAt(pair, c, r) ==
    [pair EXCEPT !.position = createPosition(c[1], c[2]), !.rotation = r]

\* The rule of a sideways move by dx columns: both targets free, or InvalidMove.
MoveRule(pair, board, dx) ==
    IF /\ Free(board, Shift(AnchorCell(pair), <<dx, 0>>))
       /\ Free(board, Shift(SecondCell(pair), <<dx, 0>>))
    THEN ok(PairAt(pair, Shift(AnchorCell(pair), <<dx, 0>>), pair.rotation))
    ELSE err("InvalidMove")

\* The rule of a rotation to `target`: in place if the new second cell is
\* free, else at the first candidate shift whose anchor cell and second cell
\* are both free, else InvalidRotation.
KickShifts(target) ==
    CASE target = DOWN -> << <<0, -1>> >>
      [] target = RIGHT -> << <<-1, 0>> >>
      [] target = LEFT -> << <<1, 0>> >>
      [] target = UP -> << <<-1, 0>>, <<1, 0>>, <<0, -1>>, <<0, 1>> >>
ShiftValid(pair, board, target, d) ==
    /\ Free(board, Shift(AnchorCell(pair), d))
    /\ Free(board, Shift(Shift(AnchorCell(pair), d), Offset(target)))
RotationRule(pair, board, target) ==
    LET shifts == KickShifts(target)
        good == {i \in DOMAIN shifts : ShiftValid(pair, board, target, shifts[i])}
    IN IF Free(board, Shift(AnchorCell(pair), Offset(target)))
       THEN ok(PairAt(pair, AnchorCell(pair), target))
       ELSE IF good = {} THEN err("InvalidRotation")
       ELSE LET first == CHOOSE i \in good : \A j \in good : i <= j
            IN ok(PairAt(pair, Shift(AnchorCell(pair), shifts[first]), target))
NextInCycle(r) == CASE r = UP -> RIGHT [] r = RIGHT -> DOWN [] r = DOWN -> LEFT [] r = LEFT -> UP
PrevInCycle(r) == CASE r = UP -> LEFT [] r = LEFT -> DOWN [] r = DOWN -> RIGHT [] r = RIGHT -> UP

(***************************************************************************)
(* Properties                                                              *)
(***************************************************************************)
\* C1: in every state other than PLAYING, or when currentPair is null, each
\* of the six player commands returns an InvalidState error and leaves the
\* snapshot as it was, so nothing of the command remains for a later tick;
\* the second conjunct puts the null pair into a PLAYING snapshot.
C1_RejectedOutsidePlaying ==
    /\ [][((game.state # "PLAYING" \/ game.currentPair = Null) /\ CommandStep)
            => (result' = "InvalidState" /\ game' = game)]_vars
    /\ [](\A r \in CommandResults([game EXCEPT !.state = "PLAYING",
                                                 !.currentPair = Null]) :
              r = err("InvalidState"))

\* A command has just been rejected while puyos were flashing.
C1_Witness ==
    /\ game.state = "FLASHING_PUYOS"
    /\ game.currentPair = Null
    /\ result = "InvalidState"

\* C2: a DROPPING tick applies exactly one step of falling; the state stays
\* DROPPING if a puyo moved and becomes CHECKING_CHAINS on the first tick in
\* which none moved; score, chainCount and currentPair are unchanged.
C2_DroppingTick ==
    [][(game.state = "DROPPING" /\ Tick)
          => /\ game'.board = OneStepFall(game.board)
             /\ game'.state = (IF game'.board # game.board
                               THEN "DROPPING" ELSE "CHECKING_CHAINS")
             /\ game' = [game EXCEPT !.board = game'.board, !.state = game'.state]]_vars

\* The first test board has fallen to the floor and the tick that moved
\* nothing has switched to CHECKING_CHAINS.
C2_Witness ==
    /\ origin = "test920"
    /\ game.state = "CHECKING_CHAINS"
    /\ game.chainCount = 0
    /\ Occupied(game.board, <<0, TotalHeight - 1>>)
    /\ ~Occupied(game.board, <<0, NORMAL_FIELD_START>>)

\* C3: a CHECKING_CHAINS tick has two outcomes. (a) Some same-colour
\* component of size >= 4 exists: the state becomes FLASHING_PUYOS, chainCount
\* grows by 1, flashingTime is 0, score grows by the step score and no pair
\* is spawned. (b) None exists: chainCount becomes 0, the next pair is spawned
\* and the state becomes PLAYING, or GAME_OVER when the spawn cells are taken.
C3_CheckingTick ==
    [][(game.state = "CHECKING_CHAINS" /\ Tick)
          => IF ClearedGroups(game.board) # {}
             THEN /\ game'.state = "FLASHING_PUYOS"
                  /\ game'.chainCount = game.chainCount + 1
                  /\ game'.flashingTime = 0
                  /\ game'.score = game.score
                        + ScoreRule(game.chainCount + 1,
                                    Cardinality(ClearedCells(game.board)),
                                    SizesOf(ClearedGroups(game.board)),
                                    Cardinality(ClearedColors(game.board)))
                  /\ game'.currentPair = game.currentPair
                  /\ game'.nextPair = game.nextPair
                  /\ game'.moveCount = game.moveCount
             ELSE /\ game'.chainCount = 0
                  /\ game'.currentPair = <<game.nextPair>>
                  /\ game'.state = (IF SpawnBlocked(game.board)
                                    THEN "GAME_OVER" ELSE "PLAYING")
                  /\ game'.board = game.board
                  /\ game'.score = game.score]_vars

\* A cascade on a stack board has scored and ended with the spawn cells taken.
C3_Witness ==
    /\ origin = "stacks"
    /\ game.state = "GAME_OVER"
    /\ game.score > 0
    /\ game.chainCount = 0
    /\ game.currentPair # Null

\* C4: a FLASHING_PUYOS tick adds 16 to flashingTime and leaves the board
\* alone while the sum is below 500; the tick on which it reaches 500, the
\* 32nd, empties every marked cell, sets flashingTime to 0 and the state to
\* DROPPING.
C4_FlashingTick ==
    [][(game.state = "FLASHING_PUYOS" /\ Tick)
          => IF game.flashingTime + 16 < 500
             THEN game' = [game EXCEPT !.flashingTime = game.flashingTime + 16]
             ELSE /\ game.flashingTime = 16 * 31
                  /\ game' = [game EXCEPT !.board = WithoutMarked(game.board),
                                          !.flashingTime = 0,
                                          !.state = "DROPPING"]]_vars

\* The flashing of the first clear has ended: the marked cells are gone and
\* what stood on them has yet to fall.
C4_Witness ==
    /\ game.state = "DROPPING"
    /\ game.chainCount = 1
    /\ game.flashingTime = 0
    /\ MarkedCells(game.board) = {}
    /\ game.board # OneStepFall(game.board)

\* C5: from every snapshot in DROPPING, CHECKING_CHAINS or FLASHING_PUYOS,
\* repeated ticks reach PLAYING or GAME_OVER.
C5_CascadeEnds ==
    (game.state \in {"DROPPING", "CHECKING_CHAINS", "FLASHING_PUYOS"})
        ~> (game.state \in {"PLAYING", "GAME_OVER"})

\* A cascade of two clear steps has ended in PLAYING with a fresh pair.
C5_Witness ==
    /\ origin = "test1480"
    /\ game.state = "PLAYING"
    /\ game.score > 280
    /\ game.currentPair # Null

\* C6: the cells marked by the chain check are exactly the cells of the
\* maximal connected same-colour components of size >= 4 of rows 2-13; no
\* crane-row or ghost-row cell is counted or marked, and no cell changes
\* otherwise.
C6_MarksExactlyComponents ==
    [][(game.state = "CHECKING_CHAINS" /\ Tick)
          => LET cleared == ClearedCells(game.board) IN
             /\ MarkedCells(game'.board) = cleared
             /\ cleared \subseteq NormalField
             /\ \A p \in AllCells :
                   /\ CellAt(game'.board, p).color = CellAt(game.board, p).color
                   /\ p \notin cleared
                        => CellAt(game'.board, p) = CellAt(game.board, p)]_vars

\* The check has run on a settled board holding three cells of one colour
\* at the top of the normal field under a ghost-row cell of that colour, and
\* has cleared nothing.
C6_Witness ==
    /\ origin = "stacks"
    /\ game.state = "PLAYING"
    /\ game.score = 0
    /\ \E x \in Cols :
          /\ Occupied(game.board, <<x, GHOST_ROW>>)
          /\ \A y \in NORMAL_FIELD_START .. NORMAL_FIELD_START + 2 :
                CellAt(game.board, <<x, y>>).color
                    = CellAt(game.board, <<x, GHOST_ROW>>).color
          /\ Cardinality(Grow(game.board, {<<x, NORMAL_FIELD_START>>},
                              {<<x, NORMAL_FIELD_START>>})) = 3

\* C7: for every chain index c >= 1, every list of cleared group sizes and
\* every colour count k in 1..5, calculateScore returns
\* puyoCount * 10 * max(1, chainBonus(c) + sum of connectionBonus(size) +
\* colorBonus(k)) with the three bonus tables of the specification.
C7_ScoreFormula ==
    scoreOut # <<>>
        => scoreOut[1] = ScoreRule(scoreArgs.chainCount, scoreArgs.puyoCount,
                                   scoreArgs.connectionCounts, scoreArgs.colorCount)

\* calculateScore has returned for a fourth chain step clearing a group of
\* 11 and a group of 5 in five colours.
C7_Witness ==
    /\ scoreOut # <<>>
    /\ scoreArgs.chainCount = 4
    /\ scoreArgs.connectionCounts = <<11, 5>>
    /\ scoreArgs.colorCount = 5
    /\ scoreOut[1] = 16 * 10 * (32 + 10 + 2 + 24)

\* C8: the k-th clear step of a cascade adds calculateScore(k, n, sizes,
\* colours) to the score, computed once over all groups cleared in the step,
\* the chain counter being k - 1 when the step is taken; the four test boards
\* end with the scores 920, 1160, 1380 and 1480.
C8_StepScore ==
    /\ [][(game.state = "CHECKING_CHAINS" /\ ClearedGroups(game.board) # {} /\ Tick)
            => game'.score = game.score
                  + calculateScore(game.chainCount + 1,
                                   Cardinality(ClearedCells(game.board)),
                                   SizesOf(ClearedGroups(game.board)),
                                   Cardinality(ClearedColors(game.board)))]_vars
    /\ [][(game.state # "CHECKING_CHAINS" /\ Tick)
            => game'.chainCount = game.chainCount /\ game'.score = game.score]_vars
    /\ [](game.state = "DROPPING" /\ game.score = 0 => game.chainCount = 0)
    /\ [](game.state \in {"PLAYING", "GAME_OVER"}
            => /\ origin = "test920" => game.score = 920
               /\ origin = "test1160" => game.score = 1160
               /\ origin = "test1380" => game.score = 1380
               /\ origin = "test1480" => game.score = 1480)

\* The second test board has run its cascade to the end.
C8_Witness ==
    /\ origin = "test1160"
    /\ game.state = "PLAYING"
    /\ game.score = 1160

\* C9: between two startGame calls the score never decreases across a
\* command or a tick; it changes only on a CHECKING_CHAINS tick that finds a
\* clear, and then it grows by at least 10 per cleared puyo.
C9_ScoreMonotone ==
    [][LET clearing == /\ game.state = "CHECKING_CHAINS"
                       /\ ClearedGroups(game.board) # {}
                       /\ Tick
       IN /\ game'.score < game.score => ~(CommandStep \/ Tick)
          /\ (game'.score # game.score /\ (CommandStep \/ Tick)) => clearing
          /\ clearing => game'.score - game.score
                            >= 10 * Cardinality(ClearedCells(game.board))]_vars

\* In a played game the first clear has just been scored.
C9_Witness ==
    /\ origin = "createGame"
    /\ game.state = "FLASHING_PUYOS"
    /\ game.chainCount = 1
    /\ game.score >= 10 * Cardinality(MarkedCells(game.board))
    /\ MarkedCells(game.board) # {}

\* C10: chainCount is 0 in every reachable IDLE, PLAYING or GAME_OVER
\* snapshot; it grows by exactly 1 on a CHECKING_CHAINS tick that clears, is
\* reset to 0 on the one that finds no group, and no other command or tick
\* changes it.
C10_ChainCount ==
    /\ [](game.state \in {"IDLE", "PLAYING", "GAME_OVER"} => game.chainCount = 0)
    /\ [][(game.state = "CHECKING_CHAINS" /\ Tick)
            => game'.chainCount = (IF ClearedGroups(game.board) # {}
                                   THEN game.chainCount + 1 ELSE 0)]_vars
    /\ [][game'.chainCount # game.chainCount
            => ~(CommandStep \/ (game.state # "CHECKING_CHAINS" /\ Tick))]_vars

\* A played cascade has ended: the game is back in PLAYING with its score
\* and a chain counter of 0.
C10_Witness ==
    /\ origin = "createGame"
    /\ game.state = "PLAYING"
    /\ game.score > 0
    /\ game.chainCount = 0

\* C11: in every reachable PLAYING snapshot both cells of the current pair,
\* the anchor and the second cell its rotation gives, lie inside the 6x14 grid
\* and are empty on the board, whatever moves, rotations, wall kicks and quick
\* turns led there.
C11_PairCellsFree ==
    game.state = "PLAYING"
        => /\ game.currentPair # Null
           /\ \A c \in PairCells(game.currentPair[1]) : Free(game.board, c)

\* A rotation to DOWN over a spawn column eleven high has kicked the pair up
\* into the ghost row.
C11_Witness ==
    /\ origin = "steer"
    /\ game.state = "PLAYING"
    /\ result = "ok"
    /\ game.currentPair # Null
    /\ game.currentPair[1].rotation = DOWN
    /\ AnchorCell(game.currentPair[1]) = <<2, GHOST_ROW>>
    /\ Occupied(game.board, <<2, NORMAL_FIELD_START + 1>>)

\* C12: currentPair is null in every reachable IDLE, DROPPING,
\* CHECKING_CHAINS or FLASHING_PUYOS snapshot and non-null in every reachable
\* PLAYING snapshot.
C12_PairPresence ==
    /\ game.state \in {"IDLE", "DROPPING", "CHECKING_CHAINS", "FLASHING_PUYOS"}
          => game.currentPair = Null
    /\ game.state = "PLAYING" => game.currentPair # Null

\* A hard drop in a played game has just put the pair on the board.
C12_Witness ==
    /\ origin = "createGame"
    /\ game.state = "DROPPING"
    /\ result = "ok"
    /\ game.currentPair = Null
    /\ game.board # createBoard

\* C13: moveLeft (moveRight) succeeds exactly when the anchor's and the second
\* cell's targets one column to the left (right) are both on the board and
\* empty; on success only position.x changes, by -1 (+1); otherwise the
\* result is InvalidMove and no pair is returned.
C13_SidewaysMove ==
    /\ Called("moveLeft")
          => callOut[1].result = MoveRule(callArgs.pair, callArgs.board, -1)
    /\ Called("moveRight")
          => callOut[1].result = MoveRule(callArgs.pair, callArgs.board, 1)

\* moveLeft has refused a vertical pair whose anchor could go left but whose
\* second cell could not.
C13_Witness ==
    /\ Called("moveLeft")
    /\ callOut[1].result = err("InvalidMove")
    /\ callArgs.pair.rotation = UP
    /\ Free(callArgs.board, Shift(AnchorCell(callArgs.pair), <<-1, 0>>))
    /\ Taken(callArgs.board, Shift(SecondCell(callArgs.pair), <<-1, 0>>))

\* C14: rotateClockwise / rotateCounterClockwise turn the pair one place
\* forward / backward in the cycle UP, RIGHT, DOWN, LEFT; the anchor stays
\* when the new second cell is on the board and empty; otherwise it goes to
\* the first valid candidate of the target rotation (DOWN: up; RIGHT: left;
\* LEFT: right; UP: left, right, up, down), valid meaning that the shifted
\* anchor cell and its second cell are both on the board and empty; with no
\* valid candidate the result is InvalidRotation and no pair is returned.
C14_Rotation ==
    /\ Called("rotateClockwise")
          => callOut[1].result
                = RotationRule(callArgs.pair, callArgs.board,
                               NextInCycle(callArgs.pair.rotation))
    /\ Called("rotateCounterClockwise")
          => callOut[1].result
                = RotationRule(callArgs.pair, callArgs.board,
                               PrevInCycle(callArgs.pair.rotation))

\* A rotation to UP under an occupied cell, the left candidate blocked: the
\* pair has been kicked one column to the right.
C14_Witness ==
    /\ Called("rotateClockwise")
    /\ callArgs.pair.rotation = LEFT
    /\ Taken(callArgs.board, Shift(AnchorCell(callArgs.pair), <<0, -1>>))
    /\ callOut[1].result.ok
    /\ callOut[1].result.value.rotation = UP
    /\ AnchorCell(callOut[1].result.value) = Shift(AnchorCell(callArgs.pair), <<1, 0>>)

\* C15: in PLAYING, a moveLeftInGame / moveRightInGame whose pair move is
\* invalid returns ok with the snapshot it was given, while a
\* rotateClockwiseInGame, rotateCounterClockwiseInGame or
\* executeQuickTurnInGame whose pair operation fails returns InvalidState; in
\* both cases the snapshot (board, currentPair, nextPair, score, chainCount,
\* state) stays as it was.
C15_FailedSteering ==
    [][(game.state = "PLAYING" /\ game.currentPair # Null)
          => LET pair == game.currentPair[1]
                 board == game.board
                 blocked(dx) == ~Free(board, Shift(AnchorCell(pair), <<dx, 0>>))
                 absorbed == result' = "ok" /\ game' = game
                 reported == result' = "InvalidState" /\ game' = game
             IN /\ (~MoveRule(pair, board, -1).ok /\ MoveLeft) => absorbed
                /\ (~MoveRule(pair, board, 1).ok /\ MoveRight) => absorbed
                /\ (~RotationRule(pair, board, NextInCycle(pair.rotation)).ok
                        /\ RotateClockwise) => reported
                /\ (~RotationRule(pair, board, PrevInCycle(pair.rotation)).ok
                        /\ RotateCounterClockwise) => reported
                /\ (~(pair.rotation \in {UP, DOWN} /\ blocked(-1) /\ blocked(1))
                        /\ QuickTurn) => reported]_vars

\* Between two columns that reach the spawn row a rotation of the fresh pair
\* has just been refused.
C15_Witness ==
    /\ origin = "steer"
    /\ game.state = "PLAYING"
    /\ result = "InvalidState"
    /\ game.currentPair # Null
    /\ game.currentPair[1].rotation = UP
    /\ Taken(game.board, Shift(AnchorCell(game.currentPair[1]), <<-1, 0>>))
    /\ Taken(game.board, Shift(AnchorCell(game.currentPair[1]), <<1, 0>>))

\* C16 as stated: on an empty board, for every rotation and every anchor at
\* which the pair lies on the board, rotateClockwise followed by
\* rotateCounterClockwise returns the original rotation and the original
\* position.
C16_RoundTripEverywhere ==
    (Len(callOut) = 2 /\ callArgs.board = createBoard)
        => /\ callOut[2].result.ok
           /\ callOut[2].result.value.rotation = callArgs.pair.rotation
           /\ callOut[2].result.value.position = callArgs.pair.position

\* C16, amended: on an empty board rotateClockwise and the
\* rotateCounterClockwise after it both succeed and the original rotation
\* comes back; the original position comes back exactly when the clockwise
\* turn needed no wall kick, that is when the cell on the clockwise side of
\* the anchor is on the board; after a wall kick the pair stays at the anchor
\* the kick moved it to.
C16_RoundTrip ==
    /\ (Called("rotateClockwise") /\ callArgs.board = createBoard)
          => callOut[1].result.ok
    /\ (Len(callOut) = 2 /\ callArgs.board = createBoard)
          => LET pair == callArgs.pair
                 turned == callOut[1].result.value
                 back == callOut[2].result
                 inPlace == Shift(AnchorCell(pair), Offset(NextInCycle(pair.rotation)))
                                \in AllCells
             IN /\ back.ok
                /\ back.value.rotation = pair.rotation
                /\ back.value.position = turned.position
                /\ back.value.position = pair.position <=> inPlace

\* On an empty board an UP pair in the rightmost column has been turned
\* clockwise and back and stands one column further left.
C16_Witness ==
    /\ Len(callOut) = 2
    /\ callArgs.board = createBoard
    /\ callArgs.pair.rotation = UP
    /\ callArgs.pair.position.x = BOARD_WIDTH - 1
    /\ callOut[2].result.ok
    /\ callOut[2].result.value.rotation = UP
    /\ callOut[2].result.value.position.x = BOARD_WIDTH - 2

\* C17: executeQuickTurn succeeds exactly when the rotation is UP or DOWN and
\* the cells directly left and right of the anchor are both blocked (off the
\* board or occupied); the new anchor is then the old second cell and the
\* rotation flips, so the pair keeps its two cells with the puyos exchanged;
\* otherwise the result is InvalidMove and no pair is returned.
C17_QuickTurn ==
    Called("executeQuickTurn")
        => LET pair == callArgs.pair
               r == callOut[1].result
               blocked(dx) == ~Free(callArgs.board, Shift(AnchorCell(pair), <<dx, 0>>))
           IN IF pair.rotation \in {UP, DOWN} /\ blocked(-1) /\ blocked(1)
              THEN /\ r.ok
                   /\ r.value = PairAt(pair, SecondCell(pair),
                                       IF pair.rotation = UP THEN DOWN ELSE UP)
                   /\ AnchorCell(r.value) = SecondCell(pair)
                   /\ SecondCell(r.value) = AnchorCell(pair)
              ELSE r = err("InvalidMove")

\* A quick turn between two occupied cells has turned a DOWN pair to UP.
C17_Witness ==
    /\ Called("executeQuickTurn")
    /\ callArgs.pair.rotation = DOWN
    /\ Taken(callArgs.board, Shift(AnchorCell(callArgs.pair), <<-1, 0>>))
    /\ Taken(callArgs.board, Shift(AnchorCell(callArgs.pair), <<1, 0>>))
    /\ callOut[1].result.ok
    /\ callOut[1].result.value.rotation = UP
    /\ callOut[1].result.value.mainPuyo = callArgs.pair.mainPuyo

\* C18: hardDrop in PLAYING takes the pair straight down as far as successive
\* one-row steps go, stopping as soon as the next cell of either puyo is off
\* the board or occupied, writes mainPuyo and secondPuyo on the two cells
\* reached and changes no other cell, sets currentPair to null and the state
\* to DROPPING; on an empty board a pair in rotation DOWN ends with secondPuyo
\* in row 13 and mainPuyo in row 12.
C18_HardDrop ==
    [][(game.state = "PLAYING" /\ game.currentPair # Null /\ HardDrop)
          => LET pair == game.currentPair[1]
                 depth == FallDepth(pair, game.board)
                 mainCell == Shift(AnchorCell(pair), <<0, depth>>)
                 secondCell == Shift(SecondCell(pair), <<0, depth>>)
                 landed == [grid |-> [y \in Rows |-> [x \in Cols |->
                               IF <<x, y>> = mainCell THEN pair.mainPuyo
                               ELSE IF <<x, y>> = secondCell THEN pair.secondPuyo
                               ELSE CellAt(game.board, <<x, y>>)]]]
             IN /\ result' = "ok"
                /\ game' = [game EXCEPT !.board = landed,
                                        !.currentPair = Null,
                                        !.state = "DROPPING"]
                /\ (game.board = createBoard /\ pair.rotation = DOWN)
                      => /\ mainCell[2] = TotalHeight - 2
                         /\ secondCell[2] = TotalHeight - 1
                         /\ CellAt(game'.board, mainCell) = pair.mainPuyo
                         /\ CellAt(game'.board, secondCell) = pair.secondPuyo]_vars

\* A blue-over-red pair turned to DOWN has been dropped on the empty board:
\* red lies on the floor and blue on top of it.
C18_Witness ==
    /\ origin = "steer"
    /\ game.state = "DROPPING"
    /\ game.currentPair = Null
    /\ result = "ok"
    /\ Cardinality({c \in AllCells : Occupied(game.board, c)}) = 2
    /\ \E x \in Cols :
          /\ CellAt(game.board, <<x, TotalHeight - 2>>) = createPuyo("blue")
          /\ CellAt(game.board, <<x, TotalHeight - 1>>) = createPuyo("red")

C20_GetAndSet ==
    LET c == <<callArgs.x, callArgs.y>> IN
    /\ Called("getPuyoAt")
          => callOut[1].result = (IF c \in AllCells THEN CellAt(callArgs.board, c)
                                  ELSE [color |-> "none", state |-> "normal"])
    /\ Called("setPuyoAt")
          => IF c \in AllCells
             THEN /\ callOut[1].result.ok
                  /\ DOMAIN callOut[1].result.value.grid = Rows
                  /\ \A y \in Rows : DOMAIN callOut[1].result.value.grid[y] = Cols
                  /\ CellAt(callOut[1].result.value, c) = callArgs.puyo
                  /\ Differing(callOut[1].result.value, callArgs.board)
                        = (IF CellAt(callArgs.board, c) = callArgs.puyo THEN {} ELSE {c})
             ELSE callOut[1].result = err("OutOfBounds")

\* setPuyoAt has put a puyo on an empty cell next to an occupied one, which
\* it left alone.
C20_Witness ==
    /\ Called("setPuyoAt")
    /\ callOut[1].result.ok
    /\ callArgs.puyo = MainPuyo
    /\ ~Occupied(callArgs.board, <<callArgs.x, callArgs.y>>)
    /\ Taken(callArgs.board, <<callArgs.x + 1, callArgs.y>>)
    /\ Differing(callOut[1].result.value, callArgs.board) = {<<callArgs.x, callArgs.y>>}

\* C21: one applyGravity call moves every occupied cell of rows 1..12 that
\* has an empty cell somewhere below it in its column down by exactly one
\* row and moves nothing else (so no cell moves two rows, a ghost-row cell
\* falls like any other, and the crane row is left as it was); moved is
\* TRUE exactly when a cell moved.
C21_ApplyGravity ==
    Called("applyGravity") =>
       LET before == callArgs.board
           after == callOut[1].result.board
           falling == {c \in AllCells : Falls(before, c[1], c[2])}
       IN /\ after = OneStepFall(before)
          /\ \A c \in falling :
                /\ c[2] \in GHOST_ROW .. TotalHeight - 2
                /\ CellAt(after, <<c[1], c[2] + 1>>) = CellAt(before, c)
          /\ \A c \in AllCells \ falling :
                Occupied(before, c) =>
                   /\ CellAt(after, c) = CellAt(before, c)
                   /\ <<c[1], c[2] - 1>> \notin falling
          /\ \A x \in Cols : CellAt(after, <<x, CRANE_ROW>>) = CellAt(before, <<x, CRANE_ROW>>)
          /\ Cardinality({c \in AllCells : Occupied(after, c)})
                = Cardinality({c \in AllCells : Occupied(before, c)})
          /\ callOut[1].result.moved = (falling # {})

\* One call has moved a ghost-row puyo into row 2 and a puyo of row 11 onto
\* row 12, while a crane-row puyo with nothing beneath it stayed.
C21_Witness ==
    /\ Called("applyGravity")
    /\ callOut[1].result.moved
    /\ Occupied(callArgs.board, <<0, CRANE_ROW>>)
    /\ Occupied(callArgs.board, <<0, GHOST_ROW>>)
    /\ ~Occupied(callArgs.board, <<0, 2>>)
    /\ Occupied(callArgs.board, <<0, 11>>)
    /\ ~Occupied(callArgs.board, <<0, 12>>)
    /\ CellAt(callOut[1].result.board, <<0, 2>>) = GravityPuyo(GHOST_ROW)
    /\ CellAt(callOut[1].result.board, <<0, 12>>) = GravityPuyo(11)
    /\ ~Occupied(callOut[1].result.board, <<0, GHOST_ROW>>)
    /\ Occupied(callOut[1].result.board, <<0, CRANE_ROW>>)

\* C22: once applyGravity has returned moved = FALSE, a further call on the
\* returned board returns moved = FALSE and the same board again.
C22_GravityFixpoint ==
    [][(Called("applyGravity") /\ ~callOut[1].result.moved)
          => /\ callOut'[1].n = callOut[1].n + 1
             /\ callArgs'.board = callOut[1].result.board
             /\ callOut'[1].result = [board |-> callOut[1].result.board,
                                      moved |-> FALSE]]_vars

\* A call after the one that first returned moved = FALSE has returned the
\* settled board again, which still has a puyo on the crane row above a gap.
C22_Witness ==
    /\ Called("applyGravity")
    /\ callOut[1].n >= 3
    /\ ~callOut[1].result.moved
    /\ callOut[1].result.board = callArgs.board
    /\ Occupied(callArgs.board, <<0, CRANE_ROW>>)
    /\ ~Occupied(callArgs.board, <<0, GHOST_ROW>>)
    /\ Occupied(callArgs.board, <<0, 13>>)
    /\ Occupied(callArgs.board, <<5, 12>>)


\* The colour a character of a line stands for.
ColourOf(ch) ==
    CASE ch \in {"r", "R"} -> "red" [] ch \in {"g", "G"} -> "green"
      [] ch \in {"b", "B"} -> "blue" [] ch \in {"y", "Y"} -> "yellow"
      [] ch \in {"p", "P"} -> "purple" [] OTHER -> "red"

\* The colours of a sequence.
ColoursOf(puyoSeq) == [i \in DOMAIN puyoSeq.seq |-> puyoSeq.seq[i].color]

NthPair(puyoSeq, n) ==
    createPuyoPairAt(puyoSeq.seq[((2 * n) % Len(puyoSeq.seq)) + 1],
                     puyoSeq.seq[((2 * n + 1) % Len(puyoSeq.seq)) + 1],
                     2, 2, UP)

\* C24: the n-th pair spawned in a game is (seq[2n mod L], seq[(2n+1) mod L]),
\* so that pair n is pair n - L/2 again; in every PLAYING snapshot nextPair
\* is pair n+1, and the next spawn makes exactly nextPair the current pair.
C24_SpawnOrder ==
    /\ [](Starts > 0 =>
            LET n == callOut[1].n
                L == Len(game.puyoSeq.seq)
            IN /\ game.currentPair # Null =>
                     /\ game.currentPair[1].mainPuyo = game.puyoSeq.seq[((2 * n) % L) + 1]
                     /\ game.currentPair[1].secondPuyo
                           = game.puyoSeq.seq[((2 * n + 1) % L) + 1]
                     /\ 2 * n >= L =>
                           /\ game.currentPair[1].mainPuyo
                                 = NthPair(game.puyoSeq, n - L \div 2).mainPuyo
                           /\ game.currentPair[1].secondPuyo
                                 = NthPair(game.puyoSeq, n - L \div 2).secondPuyo
               /\ game.state = "PLAYING" =>
                     /\ game.currentPair # Null
                     /\ game.nextPair = NthPair(game.puyoSeq, n + 1))
    /\ [][(callOut # <<>> /\ callOut' # <<>> /\ callOut'[1].n = callOut[1].n + 1)
             => game'.currentPair = <<game.nextPair>>]_vars

\* The sixth pair of the ten-colour fallback sequence is falling: it is the
\* first pair again.
C24_Witness ==
    /\ origin = "spawn"
    /\ callOut # <<>>
    /\ callOut[1].n = 5
    /\ Len(game.puyoSeq.seq) = 10
    /\ game.state = "PLAYING"
    /\ game.currentPair = <<NthPair(game.puyoSeq, 0)>>
    /\ game.nextPair = NthPair(game.puyoSeq, 1)


\* The step is a start of a game in the spawn-counting games.
StartStep ==
    /\ origin = "spawn"
    /\ callOut' # <<>>
    /\ callOut'[1].starts = Starts + 1

\* C25: startGame with the table loaded, on a snapshot in any state, returns
\* a PLAYING snapshot (never GAME_OVER) with an empty board, score 0,
\* chainCount 0, flashingTime 0, the current pair (seq[0], seq[1]) at column
\* 2, row 2, rotation UP, and the next pair (seq[2], seq[3]), seq being the
\* decoded line (seed mod lineCount) of the table.
C25_StartGame ==
    [][StartStep =>
         LET seed == callOut'[1].seed
             line == cachedSequences[(seed % Len(cachedSequences)) + 1]
             puyo(i) == [color |-> ColourOf(line[i + 1]), state |-> "normal"]
             pair(i) == [mainPuyo |-> puyo(i), secondPuyo |-> puyo(i + 1),
                         position |-> [x |-> 2, y |-> 2], rotation |-> UP]
         IN /\ result' = "ok"
            /\ \A c \in AllCells : ~Occupied(game'.board, c)
            /\ DOMAIN game'.board.grid = Rows
            /\ game'.score = 0
            /\ game'.chainCount = 0
            /\ game'.flashingTime = 0
            /\ game'.state = "PLAYING"
            /\ ColoursOf(game'.puyoSeq) = [k \in 1 .. Len(line) |-> ColourOf(line[k])]
            /\ game'.currentPair = <<pair(0)>>
            /\ game'.nextPair = pair(2)]_vars

\* A game that was over has been started again with seed 2 and is PLAYING
\* on an empty board.
C25_Witness ==
    /\ origin = "spawn"
    /\ callOut # <<>>
    /\ callOut[1].from = "GAME_OVER"
    /\ callOut[1].seed = 2
    /\ callOut[1].n = 0
    /\ cachedSequences = FileLines
    /\ game.state = "PLAYING"
    /\ game.score = 0
    /\ \A c \in AllCells : ~Occupied(game.board, c)


\* The step is a call of GameController.startGame.
StartCallStep == StartRequest \/ RetryTimer

C27_GameOver ==
    /\ [][(Tick /\ game.currentPair = Null /\ game'.currentPair # Null)
             => /\ game'.board = game.board
                /\ game'.state = (IF SpawnBlocked(game.board) THEN "GAME_OVER"
                                  ELSE "PLAYING")]_vars
    /\ [][game'.state = "GAME_OVER" /\ game.state # "GAME_OVER"
             => /\ Tick
                /\ game.currentPair = Null /\ game'.currentPair # Null
                /\ SpawnBlocked(game.board)]_vars
    /\ [][game.state = "GAME_OVER" /\ (Tick \/ CommandStep) => game' = game]_vars
    /\ [][game.state = "GAME_OVER" /\ game' # game
             => StartGame /\ game'.state = "PLAYING"]_vars

\* The game is over with the last pair resting on rows 1 and 2 of column 2,
\* and a command has just been rejected.
C27_Witness ==
    /\ origin = "createGame"
    /\ game.state = "GAME_OVER"
    /\ Occupied(game.board, <<2, 2>>)
    /\ Occupied(game.board, <<2, 1>>)
    /\ result = "InvalidState"
    /\ game.currentPair # Null


\* C28: marked cells exist only in FLASHING_PUYOS snapshots and only in rows
\* 2..13; the tick that leaves FLASHING_PUYOS empties every one of them and
\* nothing else; and a chain check finds no marked cell on its board, so the
\* cells it marks (and counts) were all unmarked puyos before.
C28_MarkedOnlyWhileFlashing ==
    /\ [](game.state # "FLASHING_PUYOS" => MarkedCells(game.board) = {})
    /\ [](\A c \in MarkedCells(game.board) : c[2] >= NORMAL_FIELD_START)
    /\ [][(game.state = "FLASHING_PUYOS" /\ Tick /\ game'.state # "FLASHING_PUYOS")
             => /\ MarkedCells(game.board) # {}
                /\ \A c \in MarkedCells(game.board) : ~Occupied(game'.board, c)
                /\ \A c \in AllCells \ MarkedCells(game.board) :
                      CellAt(game'.board, c) = CellAt(game.board, c)]_vars
    /\ [][(game.state = "CHECKING_CHAINS" /\ Tick)
             => /\ MarkedCells(game.board) = {}
                /\ \A c \in MarkedCells(game'.board) :
                      /\ Occupied(game.board, c)
                      /\ CellAt(game.board, c).state = "normal"
                      /\ CellAt(game.board, c).color = CellAt(game'.board, c).color
                /\ game'.score > game.score
                      => MarkedCells(game'.board) = ClearedCells(game.board)]_vars

\* The flashing group reaches row 2 and has a puyo of its colour above it
\* in the ghost row, which is not marked.
C28_Witness ==
    /\ game.state = "FLASHING_PUYOS"
    /\ \E x \in Cols :
          /\ Marked(game.board, <<x, 2>>)
          /\ Occupied(game.board, <<x, 1>>)
          /\ ~Marked(game.board, <<x, 1>>)
          /\ CellAt(game.board, <<x, 1>>).color = CellAt(game.board, <<x, 2>>).color


\* C29: two games started with the same explicit seed and given the same
\* commands and ticks show the same board, currentPair, nextPair, state,
\* score, chainCount and moveCount after every step, whatever snapshots
\* they were started from.
C29_SameSeedSameGame ==
    (origin = "twin" /\ callOut # <<>>) =>
        /\ game.board = callArgs.game.board
        /\ game.currentPair = callArgs.game.currentPair
        /\ game.nextPair = callArgs.game.nextPair
        /\ game.state = callArgs.game.state
        /\ game.score = callArgs.game.score
        /\ game.chainCount = callArgs.game.chainCount
        /\ game.moveCount = callArgs.game.moveCount

\* Two games that were started together from different snapshots have been
\* steered through two drops and a clear, and show the same third pair.
C29_Witness ==
    /\ origin = "twin"
    /\ callOut # <<>>
    /\ callOut[1].differed
    /\ budget = 0
    /\ game.state = "PLAYING"
    /\ game.moveCount = 4
    /\ game.score > 0
    /\ game.currentPair # Null
    /\ game = callArgs.game


C31_IdleFrames ==
    [][Tick /\ game.state \in {"IDLE", "PLAYING", "GAME_OVER"} => game' = game]_vars

\* A frame has passed in PLAYING after the player moved the pair away from
\* where it spawned (a command leaves its Result, a frame leaves "none").
C31_Witness ==
    /\ origin = "createGame"
    /\ game.state = "PLAYING"
    /\ result = "none"
    /\ game.currentPair # Null
    /\ game.currentPair[1].position # createPosition(2, 2)


\* C32: the sequence table is fetched at most once: a call made while a load
\* is in flight starts no other load and leaves the loader as it is, and once
\* cachedSequences is set (the file's lines, or the fallback after a failed
\* load) no step fetches again or changes it.
C32_FetchedOnce ==
    /\ [](callArgs.fetches <= 1)
    /\ [](Len(callArgs.inflight) <= 1)
    /\ [][(CreatePuyoSeqSync \/ CreatePuyoSeqAsync) /\ callArgs.inflight # <<>>
             => callArgs' = callArgs]_vars
    /\ [][cachedSequences # Null
             => cachedSequences' = cachedSequences /\ callArgs'.fetches = callArgs.fetches]_vars
    /\ [][cachedSequences' # cachedSequences
             => cachedSequences' \in {FileLines, FallbackLines}]_vars

\* Calls of both kinds arrived while the only load was in flight, the load
\* then failed, and a later call found the fallback cached.
C32_Witness ==
    /\ origin = "load"
    /\ cachedSequences = FallbackLines
    /\ callArgs.fetches = 1
    /\ Len(callOut) = 4
    /\ callOut[1].fetched = 1
    /\ callOut[2].inflight = 1 /\ callOut[2].op = "createPuyoSeqAsync"
    /\ callOut[3].inflight = 1 /\ callOut[3].op = "createPuyoSeq"
    /\ callOut[4].cached /\ callOut[4].fetched = 0


\* What undo and redo do when they refuse: return false and leave the game
\* and both stacks alone.
Refused == ~callOut'[1].returned /\ game' = game /\ callArgs' = callArgs

\* The rule of an undo that acts, but for what the top of gameHistory is.
UndoActs ==
    /\ callOut'[1].returned
    /\ game' = Last(callArgs.gameHistory)
    /\ callArgs'.gameHistory = Front(callArgs.gameHistory)
    /\ callArgs'.redoHistory = Append(callArgs.redoHistory, game)

\* The rule of redo, the same on either reading.
RedoRule ==
    [][RedoKey =>
          IF Len(callArgs.redoHistory) = 0 \/ game.state \in Busy THEN Refused
          ELSE callOut'[1].returned]_vars

\* The two snapshots differ at most in where the falling pair is and how it
\* is turned.
SameButPairPlace(a, b) ==
    /\ a.currentPair # Null /\ b.currentPair # Null
    /\ [a EXCEPT !.currentPair = Null] = [b EXCEPT !.currentPair = Null]
    /\ a.currentPair[1].mainPuyo = b.currentPair[1].mainPuyo
    /\ a.currentPair[1].secondPuyo = b.currentPair[1].secondPuyo

\* C33 as stated: undo (redo) refuses when its stack is empty or the state is
\* DROPPING, CHECKING_CHAINS, FLASHING_PUYOS or GAME_OVER; otherwise undo
\* puts the top of gameHistory in place of the game and the replaced game on
\* redoHistory, and that top is the snapshot saved immediately before the most
\* recent hard drop not undone.
C33_UndoToSavedSnapshot ==
    /\ RedoRule
    /\ [][UndoKey =>
             IF Len(callArgs.gameHistory) = 0 \/ game.state \in Busy THEN Refused
             ELSE /\ UndoActs
                  /\ Last(callArgs.gameHistory) = Last(callOut[1].made).saved]_vars

\* C33 amended: the same, but the top of gameHistory is the snapshot saved
\* immediately before the most recent hard drop not undone only while that
\* drop was never undone; after the drop was undone and redone the top is the
\* game as it was when redo was pressed, which is the saved snapshot with the
\* pair wherever the player turned it in between.
C33_UndoToHistoryTop ==
    /\ RedoRule
    /\ [][UndoKey =>
             IF Len(callArgs.gameHistory) = 0 \/ game.state \in Busy THEN Refused
             ELSE /\ UndoActs
                  /\ LET drop == Last(callOut[1].made) IN
                     IF drop.by = "save"
                     THEN Last(callArgs.gameHistory) = drop.saved
                     ELSE SameButPairPlace(Last(callArgs.gameHistory), drop.saved)]_vars

\* An undo has acted on a drop that had been undone and redone, and the game
\* it brought back is not the snapshot saved before that drop: the pair is
\* turned.
C33_Witness ==
    /\ origin = "undo"
    /\ callOut[1].op = "undo"
    /\ callOut[1].returned
    /\ game.state = "PLAYING"
    /\ callArgs.redoHistory # <<>>
    /\ game # Last(callOut[1].unmade)
    /\ SameButPairPlace(game, Last(callOut[1].unmade))


\* No puyo of rows 1-12 stands over an empty cell.
Settled(board) ==
    \A x \in Cols, y \in GHOST_ROW .. TotalHeight - 2 :
        Occupied(board, <<x, y>>) => Occupied(board, <<x, y + 1>>)

\* C34: every snapshot in state PLAYING has a settled, chain-free board: no
\* non-empty cell of rows 1-12 has an empty cell directly below it, and rows
\* 2-13 hold no connected same-colour component of four or more cells.
C34_PlayingSettled ==
    game.state = "PLAYING" => Settled(game.board) /\ ClearedGroups(game.board) = {}


\* A landing made a group of four reds in column 1, the group was cleared,
\* the blue puyo that stood on it fell next to three blues, that group was
\* cleared too, and the game is PLAYING again on an empty board.
C34_Witness ==
    /\ origin = "createGame"
    /\ game.state = "PLAYING"
    /\ game.score >= 360
    /\ game.currentPair # Null
    /\ \A p \in AllCells : ~Occupied(game.board, p)


\* The number of non-empty cells of a board.
PuyoCount(board) == Cardinality({p \in AllCells : Occupied(board, p)})

\* The puyos of column x from the top down, empty cells left out.
RECURSIVE ColumnFrom(_, _, _)
ColumnFrom(board, x, y) ==
    IF y >= TotalHeight THEN <<>>
    ELSE (IF Occupied(board, <<x, y>>) THEN <<CellAt(board, <<x, y>>)>> ELSE <<>>)
            \o ColumnFrom(board, x, y + 1)

\* An accepted landing: two puyos more.
Landed ==
    /\ game.state = "PLAYING"
    /\ game'.state = "DROPPING"
    /\ PuyoCount(game'.board) = PuyoCount(game.board) + 2

\* The tick that leaves FLASHING_PUYOS: the marked cells, four at least, are
\* gone and nothing else has changed.
Removed ==
    /\ game.state = "FLASHING_PUYOS"
    /\ game'.state = "DROPPING"
    /\ Cardinality(MarkedCells(game.board)) >= 4
    /\ game'.board = WithoutMarked(game.board)

\* startGame: a fresh board.
Restarted == game'.state \in {"PLAYING", "GAME_OVER"} /\ game'.board = createBoard /\ result' = "ok"

\* A gravity tick keeps every column's puyos and their order.
GravityKeepsColumns ==
    [][game.state = "DROPPING" /\ Tick
          => \A x \in Cols : ColumnFrom(game'.board, x, 0) = ColumnFrom(game.board, x, 0)]_vars

C36_HardDropSucceeds ==
    game.state = "PLAYING"
        => /\ game.currentPair # Null
           /\ LET r == hardDrop(game) IN
              /\ r.ok
              /\ LET written == Differing(game.board, r.value.board) IN
                 /\ Cardinality(written) = 2
                 /\ \A c \in written : ~Occupied(game.board, c) /\ Occupied(r.value.board, c)

\* A pair has been dropped on the spawn column standing eleven high: it lies
\* on rows 1 and 2, the highest a landing in this column can be.
C36_Witness ==
    /\ origin = "steer"
    /\ game.state = "DROPPING"
    /\ game.currentPair = Null
    /\ result = "ok"
    /\ Occupied(game.board, <<2, GHOST_ROW>>)
    /\ Occupied(game.board, <<2, NORMAL_FIELD_START>>)


\* Whether the crane row of the board holds a puyo.
CraneRowUsed(board) == \E x \in Cols : Occupied(board, <<x, CRANE_ROW>>)

\* C37: crane-row placement is reachable by normal play.  The game started
\* on the fallback line and played with the moves, rotations and hard drops
\* of ScriptE comes to its thirteenth pair with an empty crane row, and the
\* hard drop that ends the script leaves a puyo in row 0 of the board.
C37_CraneRowReached ==
    [][(/\ origin = "createGame"
        /\ cachedSequences = FallbackLines
        /\ game.state = "PLAYING"
        /\ game.moveCount = Len(ScriptE) \div 2 + 2
        /\ script = <<"hardDrop">>
        /\ HardDrop)
       => /\ ~CraneRowUsed(game.board)
          /\ game'.state = "DROPPING"
          /\ CraneRowUsed(game'.board)]_vars

\* The puyo of row 0 is still on the board when the next pair is in play.
C37_Witness ==
    /\ origin = "createGame"
    /\ script = <<>>
    /\ game.state = "PLAYING"
    /\ game.moveCount = Len(ScriptE) \div 2 + 3
    /\ Occupied(game.board, <<1, CRANE_ROW>>)
    /\ Occupied(game.board, <<1, GHOST_ROW>>)

\* C38: after any interleaving of hard drops, undo, redo and restarts,
\* gameHistory holds at most MAX_HISTORY_SIZE snapshots, canUndo is true
\* exactly when gameHistory is non-empty and canRedo is true exactly when
\* redoHistory is non-empty.
C38_HistoryBounded ==
    origin \in {"long", "undo"} =>
        /\ Len(callArgs.gameHistory) <= MAX_HISTORY_SIZE
        /\ callArgs.canUndo <=> callArgs.gameHistory # <<>>
        /\ callArgs.canRedo <=> callArgs.redoHistory # <<>>

\* The last drop has been undone after the oldest snapshot was dropped: the
\* first entry of the history is no longer the first pair of the game, and
\* a redo will fill the history to its limit again.
C38_Witness ==
    /\ origin = "long"
    /\ game.state = "PLAYING"
    /\ Len(callArgs.gameHistory) = MAX_HISTORY_SIZE - 1
    /\ callArgs.gameHistory[1].moveCount > startGame(game, cachedSequences, 1).value.moveCount
    /\ Len(callArgs.redoHistory) = 1
    /\ callArgs.canRedo /\ callArgs.canUndo


\* C39: in PLAYING with a non-empty gameHistory, undo immediately followed
\* by redo restores the game snapshot and both history stacks to exactly
\* their values before the undo.
C39_UndoThenRedo ==
    [][(/\ origin = "undo"
        /\ game.state = "PLAYING"
        /\ callArgs.gameHistory # <<>>
        /\ UndoKey)
       => /\ callOut'[1].returned
          /\ redo(callArgs', game').returned
          /\ redo(callArgs', game').game = game
          /\ redo(callArgs', game').ctl.gameHistory = callArgs.gameHistory
          /\ redo(callArgs', game').ctl.redoHistory = callArgs.redoHistory]_vars

\* A redo that followed an undo: the drop is made again, with an older
\* undone drop still waiting on redoHistory.
C39_Witness ==
    /\ origin = "undo"
    /\ callOut[1].op = "redo"
    /\ callOut[1].returned
    /\ game.state = "PLAYING"
    /\ callArgs.gameHistory # <<>>
    /\ Last(callOut[1].made).by = "redo"
    /\ callArgs.redoHistory # <<>>


=============================================================================
